---- MODULE Spec2Model ----
(***************************************************************************)
(* Discovery & Enrichment Engine (agent/search/discovery.py, SearchEngine). *)
(* URLs, titles and page texts are drawn from small tables of concrete     *)
(* strings; the substring tests, lower-casing and regular expressions of   *)
(* the code are tabulated for exactly those strings.                       *)
(***************************************************************************)
EXTENDS Integers, Sequences, FiniteSets, TLC

VARIABLES
    pc,             \* position of the running call
    u1, u2,         \* URLs handed to _get_url_priority
    score1, score2, \* the scores it returned
    request_count,  \* self._request_count
    http_client,    \* self.http_client: 0 for None, else the number of the client
    clients_created,\* how many httpx.AsyncClient objects were constructed
    limiter_calls,  \* how many times _rate_limit was called
    requests,       \* how many provider queries and page fetches were issued
    op,             \* the public operation that is running
    strategy,       \* the strategy argument of discover_by_strategy
    limit,          \* its limit argument
    strat,          \* the strategy whose templates are being queried
    tmpl,           \* the next template of that strategy
    search,         \* locals of _search_with_templates: results, seen_urls, seen_names
    queried,        \* provider queries made by this _search_with_templates call
    failed,         \* 1 once one of them raised a provider error
    no_error_run,   \* the same call's results had every failing query returned no hits
    twin,           \* discover_by_strategy(city, "directories", limit) given the same answers
    all_results,    \* all_results of discover_businesses / deep_search
    seen_names,     \* seen_names of discover_businesses / deep_search
    ranked,         \* the sorted list the enrichment loop walks
    idx,            \* the next record of ranked to enrich
    returned,       \* the list the operation returned
    hash_seed,      \* the process's string-hash seed (fixes the order of a set's elements)
    web,            \* what the fetcher answered for each URL so far
    replay,         \* TRUE when the fetcher answers a URL again as it did before
    tasks,          \* the coroutines running scrape_website_contacts / enrich_lead
    call,           \* 1 or 2: which of the two enrich_lead calls is running
    first,          \* the lead the first enrich_lead call returned
    leads,          \* the leads argument of enrich_leads_batch
    max_concurrent, \* its max_concurrent argument
    batch_at,       \* i of its loop over the batches
    enriched,       \* its enriched list
    finished,       \* by input position: how the coroutine of that lead ended
    clock,          \* time.time(), in seconds since the engine was constructed
    last_request_time, \* self._last_request_time
    calls,          \* how many times _rate_limit has been called
    made,           \* when the latest _rate_limit call was made
    prev_made,      \* when the call before it was made
    proceeded,      \* when the latest _rate_limit call returned
    curated,        \* locals of discover_from_curated_list: companies, results, scraped, ...
    extract,        \* locals of _extract_contact_info: its arguments, contact, the stage reached
    hit             \* the search hit the loop of _search_with_templates is looking at

Null == "None"

Min(S) == CHOOSE x \in S : \A y \in S : x <= y
Max(S) == CHOOSE x \in S : \A y \in S : x >= y

(***************************************************************************)
(* The URLs of the model.  lower = url.lower(); occurs = the entries of    *)
(* priority_domains, skip_domains and the business path patterns that are  *)
(* substrings of lower; netloc = urlparse(url).netloc; hostwords = the     *)
(* source keywords that are substrings of netloc.lower().                  *)
(***************************************************************************)
UrlTable ==
    {[url |-> "https://www.indiamart.com/acme-sports",
      lower |-> "https://www.indiamart.com/acme-sports",
      occurs |-> {"indiamart.com"},
      netloc |-> "www.indiamart.com",
      hostwords |-> {"indiamart"}],
     [url |-> "https://www.tradeindia.com/seller/acme",
      lower |-> "https://www.tradeindia.com/seller/acme",
      occurs |-> {"tradeindia.com", "india.com"},
      netloc |-> "www.tradeindia.com",
      hostwords |-> {"tradeindia"}],
     [url |-> "https://www.justdial.com/Mumbai/pickleball",
      lower |-> "https://www.justdial.com/mumbai/pickleball",
      occurs |-> {"justdial.com"},
      netloc |-> "www.justdial.com",
      hostwords |-> {"justdial"}],
     [url |-> "https://in.linkedin.com/company/indiamart.com",
      lower |-> "https://in.linkedin.com/company/indiamart.com",
      occurs |-> {"indiamart.com", "linkedin.com", "/company/"},
      netloc |-> "in.linkedin.com",
      hostwords |-> {"linkedin"}],
     [url |-> "https://dir.sulekha.com/justdial.com-alternatives",
      lower |-> "https://dir.sulekha.com/justdial.com-alternatives",
      occurs |-> {"justdial.com", "sulekha.com"},
      netloc |-> "dir.sulekha.com",
      hostwords |-> {"sulekha"}],
     [url |-> "https://www.alibaba.com/supplier/tradexcel.in",
      lower |-> "https://www.alibaba.com/supplier/tradexcel.in",
      occurs |-> {"tradexcel.in", "alibaba.com", "/supplier/"},
      netloc |-> "www.alibaba.com",
      hostwords |-> {}],
     [url |-> "https://www.exportersindia.com/acme",
      lower |-> "https://www.exportersindia.com/acme",
      occurs |-> {"exportersindia.com", "india.com"},
      netloc |-> "www.exportersindia.com",
      hostwords |-> {}],
     [url |-> "https://www.yellowpages.co.in/acme",
      lower |-> "https://www.yellowpages.co.in/acme",
      occurs |-> {"yellowpages.co.in"},
      netloc |-> "www.yellowpages.co.in",
      hostwords |-> {"yellowpages"}],
     [url |-> "https://acmesports.in/",
      lower |-> "https://acmesports.in/",
      occurs |-> {},
      netloc |-> "acmesports.in",
      hostwords |-> {}],
     [url |-> "https://acmesports.in/dealer/mumbai",
      lower |-> "https://acmesports.in/dealer/mumbai",
      occurs |-> {"/dealer/"},
      netloc |-> "acmesports.in",
      hostwords |-> {}],
     [url |-> "https://smashpickle.com/company/about",
      lower |-> "https://smashpickle.com/company/about",
      occurs |-> {"/company/"},
      netloc |-> "smashpickle.com",
      hostwords |-> {}],
     [url |-> "https://smashpickle.com/news/launch",
      lower |-> "https://smashpickle.com/news/launch",
      occurs |-> {"news"},
      netloc |-> "smashpickle.com",
      hostwords |-> {}],
     [url |-> "https://www.youtube.com/watch",
      lower |-> "https://www.youtube.com/watch",
      occurs |-> {"youtube.com"},
      netloc |-> "www.youtube.com",
      hostwords |-> {}],
     [url |-> "https://WWW.IndiaMART.com/Smash",
      lower |-> "https://www.indiamart.com/smash",
      occurs |-> {"indiamart.com"},
      netloc |-> "WWW.IndiaMART.com",
      hostwords |-> {"indiamart"}]}

URLS == {r.url : r \in UrlTable}

UrlInfo == [u \in URLS |-> CHOOSE r \in UrlTable : r.url = u]

Info(url) == UrlInfo[url]

\* `pat in url_lower`
InUrl(pat, url) == pat \in Info(url).occurs

\* self.priority_domains, in the insertion order a dict iterates in
PriorityDomains ==
    << [domain |-> "indiamart.com",        score |-> 10],
       [domain |-> "tradeindia.com",       score |-> 10],
       [domain |-> "justdial.com",         score |-> 9],
       [domain |-> "exportersindia.com",   score |-> 9],
       [domain |-> "sulekha.com",          score |-> 8],
       [domain |-> "yellowpages.co.in",    score |-> 8],
       [domain |-> "go4worldbusiness.com", score |-> 7],
       [domain |-> "tradexcel.in",         score |-> 7],
       [domain |-> "linkedin.com",         score |-> 6],
       [domain |-> "alibaba.com",          score |-> 6] >>

\* self.skip_domains
SkipDomains ==
    {"youtube.com", "facebook.com", "twitter.com", "x.com",
     "instagram.com", "wikipedia.org", "pinterest.com",
     "news", "thehindu", "indiatimes", "ndtv", "india.com",
     "bbc.com", "cnn.com", "reuters", "bloomberg",
     "quora.com", "reddit.com", "medium.com"}

BusinessPatterns == {"/company/", "/supplier/", "/manufacturer/", "/dealer/"}

\* the table entries (by position) whose domain occurs in the URL
MatchingEntries(url) ==
    {i \in 1..Len(PriorityDomains) : InUrl(PriorityDomains[i].domain, url)}

\* a slip: the loop keeps the last matching entry instead of returning the first
GetUrlPriorityLastMatch(url) ==
    IF MatchingEntries(url) # {}
    THEN PriorityDomains[Max(MatchingEntries(url))].score
    ELSE IF \E p \in BusinessPatterns : InUrl(p, url) THEN 5 ELSE 1

\* _get_url_priority: the first matching entry in dict order, else 5, else 1
GetUrlPriority(url) ==
    IF MatchingEntries(url) # {}
    THEN PriorityDomains[Min(MatchingEntries(url))].score
    ELSE IF \E p \in BusinessPatterns : InUrl(p, url) THEN 5 ELSE 1

\* _is_business_url
IsBusinessUrl(url) == ~ \E d \in SkipDomains : InUrl(d, url)

\* the two results for every URL of the model
UrlPriority == [u \in URLS |-> GetUrlPriority(u)]

UrlIsBusiness == [u \in URLS |-> IsBusinessUrl(u)]

(***************************************************************************)
(* Search-result titles.  clean = _clean_business_name(title), clean_lower *)
(* = clean.lower(), clean_len = len(clean).                                *)
(***************************************************************************)
TitleTable ==
    {[title |-> "ABC Traders Pvt Ltd - IndiaMART", clean |-> "ABC Traders", clean_lower |-> "abc traders", clean_len |-> 11],
     [title |-> "abc traders | Home", clean |-> "abc traders", clean_lower |-> "abc traders", clean_len |-> 11],
     [title |-> "Smash Sports, Mumbai", clean |-> "Smash Sports", clean_lower |-> "smash sports", clean_len |-> 12],
     [title |-> "Court Kings LLP", clean |-> "Court Kings", clean_lower |-> "court kings", clean_len |-> 11],
     [title |-> "XY - Home", clean |-> "XY", clean_lower |-> "xy", clean_len |-> 2],
     [title |-> "- Home", clean |-> "", clean_lower |-> "", clean_len |-> 0],
     [title |-> "Shree Balaji Pickleball Paddles Rackets Nets Balls Shoes Bags Grips Apparel and Court Equipment Wholesale Traders of Meerut",
      clean |-> "Shree Balaji Pickleball Paddles Rackets Nets Balls Shoes Bags Grips Apparel and Court Equipment Whol",
      clean_lower |-> "shree balaji pickleball paddles rackets nets balls shoes bags grips apparel and court equipment whol",
      clean_len |-> 100]}

TitleInfo == [t \in {r.title : r \in TitleTable} |-> CHOOSE r \in TitleTable : r.title = t]

NameInfo == [n \in {r.clean : r \in TitleTable} |-> CHOOSE r \in TitleTable : r.clean = n]

\* _clean_business_name
CleanBusinessName(title) == TitleInfo[title].clean

\* name.lower()
NameLower(name) == NameInfo[name].clean_lower

\* len(name)
NameLen(name) == NameInfo[name].clean_len

(***************************************************************************)
(* Search-result snippets with what _extract_contact_info(body) finds in   *)
(* them (no HTML is passed for a snippet).                                 *)
(***************************************************************************)
SnippetTable ==
    {[text |-> "",
      email |-> Null, phone |-> Null, whatsapp |-> Null],
     [text |-> "Call 9876543210 now",
      email |-> Null, phone |-> "+919876543210", whatsapp |-> Null],
     [text |-> "Dealer enquiry sales@acme.in",
      email |-> "sales@acme.in", phone |-> Null, whatsapp |-> Null],
     [text |-> "WhatsApp: +91 91234 56780",
      email |-> Null, phone |-> "+919123456780", whatsapp |-> "+919123456780"],
     [text |-> "WhatsApp: +91 99887 76655",
      email |-> Null, phone |-> "+919988776655", whatsapp |-> "+919988776655"]}

\* _extract_contact_info(text) without html_soup
SnippetInfo ==
    [t \in {r.text : r \in SnippetTable} |-> CHOOSE r \in SnippetTable : r.text = t]

ExtractContactInfo(text) ==
    [email |-> SnippetInfo[text].email, phone |-> SnippetInfo[text].phone,
     whatsapp |-> SnippetInfo[text].whatsapp]

(***************************************************************************)
(* Fetched pages, with what the extractors find in their text and tags:    *)
(* email/phone/whatsapp = _extract_contact_info(text, soup), address =     *)
(* _extract_address(text, soup), social_links = _extract_social_links,     *)
(* contact_pages = the set _find_contact_pages builds for the base URL     *)
(* https://acmesports.in/, find_raises = urljoin raises on one of its hrefs.*)
(***************************************************************************)
PageTable ==
    {[id |-> "home",
      text |-> "Acme Sports pickleball paddles",
      email |-> Null, phone |-> Null, whatsapp |-> Null,
      address |-> Null,
      social_links |-> {"https://facebook.com/acme"},
      contact_pages |-> {"https://acmesports.in/about-us", "https://acmesports.in/contact"},
      find_raises |-> FALSE],
     [id |-> "contact",
      text |-> "Call 9876543210 now",
      email |-> "owner@acme.in", phone |-> "+919876543210", whatsapp |-> Null,
      address |-> "12 MG Road, Andheri East, Mumbai 400069",
      social_links |-> {},
      contact_pages |-> {},
      find_raises |-> FALSE],
     [id |-> "about",
      text |-> "WhatsApp: +91 91234 56780 Dealer enquiry sales@acme.in",
      email |-> "sales@acme.in", phone |-> "+919123456780", whatsapp |-> "+919123456780",
      address |-> Null,
      social_links |-> {},
      contact_pages |-> {"https://acmesports.in/", "https://acmesports.in/contact"},
      find_raises |-> FALSE],
     [id |-> "broken",
      text |-> "Dealer enquiry sales@acme.in",
      email |-> "sales@acme.in", phone |-> Null, whatsapp |-> Null,
      address |-> Null,
      social_links |-> {},
      contact_pages |-> {},
      find_raises |-> TRUE],
     [id |-> "links",
      text |-> "Acme Sports dealers",
      email |-> Null, phone |-> Null, whatsapp |-> Null,
      address |-> Null,
      social_links |-> {},
      contact_pages |-> {"https://acmesports.in/about-us", "https://acmesports.in/contact", "https://acmesports.in/dealer/mumbai", "https://acmesports.in/enquiry", "https://evil.example/contact?ref=acmesports.in"},
      find_raises |-> FALSE],
     [id |-> "plain",
      text |-> "Welcome to our shop",
      email |-> Null, phone |-> Null, whatsapp |-> Null,
      address |-> Null,
      social_links |-> {},
      contact_pages |-> {},
      find_raises |-> FALSE],
     [id |-> "call",
      text |-> "Call 9876543210 now",
      email |-> Null, phone |-> "+919876543210", whatsapp |-> Null,
      address |-> Null,
      social_links |-> {},
      contact_pages |-> {},
      find_raises |-> FALSE]}

Pages == {p.id : p \in PageTable}

PageInfo == [i \in Pages |-> CHOOSE p \in PageTable : p.id = i]

Page(id) == PageInfo[id]

\* what the search provider can return for one hit
Hits ==
    {[href |-> "https://www.indiamart.com/acme-sports",
      title |-> "ABC Traders Pvt Ltd - IndiaMART", body |-> "Call 9876543210 now"],
     [href |-> "https://acmesports.in/dealer/mumbai",
      title |-> "abc traders | Home", body |-> "Dealer enquiry sales@acme.in"],
     [href |-> "https://www.indiamart.com/acme-sports",
      title |-> "Shree Balaji Pickleball Paddles Rackets Nets Balls Shoes Bags Grips Apparel and Court Equipment Wholesale Traders of Meerut",
      body |-> "WhatsApp: +91 99887 76655"],
     [href |-> "https://www.youtube.com/watch",
      title |-> "Court Kings LLP", body |-> ""],
     [href |-> "https://acmesports.in/",
      title |-> "XY - Home", body |-> ""],
     [href |-> "https://acmesports.in/",
      title |-> "- Home", body |-> ""]}

\* the longest hit list the provider returns in the model
MaxHits == 2

\* the largest limit argument in the model
MaxLimit == 2

SeqsUpTo(S, n) == UNION {[1..k -> S] : k \in 0..n}

\* ddgs.text(query, ...) raises
ProviderError == [error |-> TRUE, hits |-> << >>]

\* ddgs.text(query, ...): a list of hits, or an exception
ProviderResponses ==
    {[error |-> FALSE, hits |-> h] : h \in SeqsUpTo(Hits, MaxHits)} \cup {ProviderError}

\* list.sort(key=..., reverse=True) of seq, keys[i] being the key of seq[i]:
\* descending by key, elements of equal key keep their order
SortDesc(seq, keys) ==
    LET n == Len(seq)
        place(i) == 1 + Cardinality({j \in 1..n : keys[j] > keys[i]})
                      + Cardinality({j \in 1..(i - 1) : keys[j] = keys[i]})
    IN  [p \in 1..n |-> seq[CHOOSE i \in 1..n : place(i) = p]]

\* the source tag _search_with_templates derives from the URL's host
SourceOf(url) ==
    LET words == Info(url).hostwords
    IN  IF "indiamart" \in words THEN "IndiaMART"
        ELSE IF "tradeindia" \in words THEN "TradeIndia"
        ELSE IF "justdial" \in words THEN "JustDial"
        ELSE IF "linkedin" \in words THEN "LinkedIn"
        ELSE IF "sulekha" \in words THEN "Sulekha"
        ELSE IF "yellowpages" \in words THEN "YellowPages"
        ELSE "web_search"

\* the business dict _search_with_templates builds for an accepted hit
\* (address and discovery_strategy are keys it does not set)
Business(item, name) ==
    LET contact == ExtractContactInfo(item.body)
    IN  [name |-> name,
         website |-> item.href,
         email |-> contact.email,
         phone |-> contact.phone,
         whatsapp |-> contact.whatsapp,
         address |-> Null,
         source |-> SourceOf(item.href),
         priority_score |-> UrlPriority[item.href],
         discovery_strategy |-> Null]

\* locals of a fresh _search_with_templates call
NewSearch == [results |-> << >>, seen_urls |-> {}, seen_names |-> {}]

\* a slip: the test of the cleaned name is left out
ProcessItemAnyName(st, item, max_results) ==
    LET name == CleanBusinessName(item.title)
    IN  IF Len(st.results) >= max_results THEN st
        ELSE IF item.href \in st.seen_urls THEN st
        ELSE IF ~ UrlIsBusiness[item.href] THEN st
        ELSE IF NameLower(name) \in st.seen_names THEN st
        ELSE [results |-> Append(st.results, Business(item, name)),
              seen_urls |-> st.seen_urls \cup {item.href},
              seen_names |-> st.seen_names \cup {NameLower(name)}]

\* one pass of the loop over the hits of a query
ProcessItem(st, item, max_results) ==
    LET name == CleanBusinessName(item.title)
    IN  IF Len(st.results) >= max_results THEN st
        ELSE IF item.href \in st.seen_urls THEN st
        ELSE IF ~ UrlIsBusiness[item.href] THEN st
        ELSE IF name = "" \/ NameLen(name) < 3 THEN st
        ELSE IF NameLower(name) \in st.seen_names THEN st
        ELSE [results |-> Append(st.results, Business(item, name)),
              seen_urls |-> st.seen_urls \cup {item.href},
              seen_names |-> st.seen_names \cup {NameLower(name)}]

RECURSIVE ProcessItems(_, _, _)
ProcessItems(st, items, max_results) ==
    IF items = << >> THEN st
    ELSE ProcessItems(ProcessItem(st, items[1], max_results), Tail(items), max_results)

\* search_results.sort(key=priority of href, reverse=True)
SortHits(items) ==
    SortDesc(items, [i \in 1..Len(items) |-> UrlPriority[items[i].href]])

\* a slip: a provider error clears what the call had collected
ProcessResponseLosing(st, resp, max_results) ==
    IF resp.error THEN NewSearch
    ELSE ProcessItems(st, SortHits(resp.hits), max_results)

\* the body of the loop over the templates for one query: the try block
\* with its except/continue
ProcessResponse(st, resp, max_results) ==
    IF resp.error THEN st
    ELSE ProcessItems(st, SortHits(resp.hits), max_results)

\* a slip: the count is never reset
RateLimitNoReset(count) == count + 1

\* _rate_limit's effect on self._request_count
RateLimit(count) == IF count + 1 > 10 THEN 0 ELSE count + 1

\* a slip: the request goes out without a self._rate_limit() call
RateLimitSkipped(n) == n

\* self._rate_limit() has been called once more
RateLimited(n) == n + 1

\* a slip: the test of self.http_client is left out
GetHttpClientAnew(client, created) ==
    [client |-> created + 1, created |-> created + 1]

\* _get_http_client: self.http_client, made first if there is none yet
GetHttpClient(client, created) ==
    IF client = 0 THEN [client |-> created + 1, created |-> created + 1]
    ELSE [client |-> client, created |-> created]

\* len() of the template lists built in __init__
TemplateCount ==
    [directory |-> 15, manufacturer |-> 8, tradeshow |-> 6, linkedin |-> 5,
     google_advanced |-> 8, yellowpages |-> 5, marketplace |-> 5, sports_shop |-> 6]

\* discover_businesses and deep_search query at most the first MaxTemplates
\* templates of each list in the model
MaxTemplates == 2

\* templates[:n] has min(n, len(templates)) elements
Sliced(count, n) ==
    IF count < n THEN Min({count, MaxTemplates}) ELSE Min({n, MaxTemplates})

\* the whole list
Whole(count) == Min({count, MaxTemplates})

\* the _search_with_templates calls of discover_businesses, in order:
\* how many templates each gets, its max_results, and whether its results
\* are merged through seen_names (the first call's are not)
DiscoverPlan(lim) ==
    LET per_strategy == Max({3, lim \div 3})
    IN  << [name |-> "Strategy 1", templates |-> Sliced(TemplateCount.directory, 6),
            max_results |-> per_strategy, by_name |-> FALSE, tag |-> Null],
           [name |-> "Strategy 2", templates |-> Sliced(TemplateCount.google_advanced, 4),
            max_results |-> per_strategy, by_name |-> TRUE, tag |-> Null],
           [name |-> "Strategy 3", templates |-> Sliced(TemplateCount.manufacturer, 3),
            max_results |-> per_strategy \div 2, by_name |-> TRUE, tag |-> Null],
           [name |-> "Strategy 4", templates |-> Sliced(TemplateCount.sports_shop, 3),
            max_results |-> per_strategy \div 2, by_name |-> TRUE, tag |-> Null] >>

\* the strategies list of deep_search
DeepStrategies ==
    << [name |-> "Industry Directories", templates |-> Whole(TemplateCount.directory)],
       [name |-> "Manufacturer Lists",   templates |-> Whole(TemplateCount.manufacturer)],
       [name |-> "Trade Shows",          templates |-> Whole(TemplateCount.tradeshow)],
       [name |-> "LinkedIn",             templates |-> Whole(TemplateCount.linkedin)],
       [name |-> "Google Advanced",      templates |-> Whole(TemplateCount.google_advanced)],
       [name |-> "Yellow Pages",         templates |-> Whole(TemplateCount.yellowpages)],
       [name |-> "Marketplaces",         templates |-> Whole(TemplateCount.marketplace)],
       [name |-> "Sports Shops",         templates |-> Whole(TemplateCount.sports_shop)] >>

\* the _search_with_templates calls of deep_search
DeepPlan(lim) ==
    LET per_strategy == Max({3, lim \div Len(DeepStrategies)})
    IN  [s \in 1..Len(DeepStrategies) |->
            [name |-> DeepStrategies[s].name, templates |-> DeepStrategies[s].templates,
             max_results |-> per_strategy, by_name |-> TRUE,
             tag |-> DeepStrategies[s].name]]

\* the ids discover_by_strategy is called with in the model ("other" is in no map)
StrategyIds ==
    {"directories", "manufacturers", "tradeshows", "linkedin", "google",
     "yellowpages", "marketplaces", "sports_shops", "other"}

\* the keys of templates_map
NamedStrategies ==
    {"directories", "manufacturers", "tradeshows", "linkedin", "google",
     "yellowpages", "marketplaces", "sports_shops"}

\* a slip: an id that is not a key gets the manufacturer templates
TemplateListOtherDefault(id) ==
    CASE id = "directories"  -> "directory"
      [] id = "manufacturers" -> "manufacturer"
      [] id = "tradeshows"   -> "tradeshow"
      [] id = "linkedin"     -> "linkedin"
      [] id = "google"       -> "google_advanced"
      [] id = "yellowpages"  -> "yellowpages"
      [] id = "marketplaces" -> "marketplace"
      [] id = "sports_shops" -> "sports_shop"
      [] OTHER               -> "manufacturer"

\* templates_map.get(strategy, self.directory_search_templates): which of
\* the template lists of __init__ it is
TemplateList(id) ==
    CASE id = "directories"  -> "directory"
      [] id = "manufacturers" -> "manufacturer"
      [] id = "tradeshows"   -> "tradeshow"
      [] id = "linkedin"     -> "linkedin"
      [] id = "google"       -> "google_advanced"
      [] id = "yellowpages"  -> "yellowpages"
      [] id = "marketplaces" -> "marketplace"
      [] id = "sports_shops" -> "sports_shop"
      [] OTHER               -> "directory"

\* len(templates_map.get(strategy, self.directory_search_templates))
TemplatesMap(id) == TemplateCount[TemplateList(id)]

\* the queries _search_with_templates has sent after n turns of its loop
\* over the list: template.format(city=city) of the first n templates (no
\* template occurs twice in the lists, so list and position name the query)
Queries(list, n) == [i \in 1..n |-> <<list, i>>]

\* a fresh discover_by_strategy(city, "directories", limit) call
NewTwin == [search |-> NewSearch, tmpl |-> 1]

\* that call's loop has ended: the list is exhausted or max_results reached
TwinDone(tw, lim) ==
    \/ tw.tmpl > TemplatesMap("directories")
    \/ Len(tw.search.results) >= lim

\* one more provider answer handed to that call, if it asks for one
TwinTurn(tw, resp, lim) ==
    IF TwinDone(tw, lim) THEN tw
    ELSE [search |-> ProcessResponse(tw.search, resp, lim), tmpl |-> tw.tmpl + 1]

\* the single _search_with_templates call of discover_by_strategy
StrategyPlan(id, lim) ==
    << [name |-> id, templates |-> TemplatesMap(id),
        max_results |-> lim, by_name |-> FALSE, tag |-> Null] >>

Plan(operation, id, lim) ==
    IF operation = "discover_businesses" THEN DiscoverPlan(lim)
    ELSE IF operation = "deep_search" THEN DeepPlan(lim)
    ELSE StrategyPlan(id, lim)

\* for r in results: if r["name"].lower() not in seen_names: append, add
\* (deep_search also records the strategy in r["discovery_strategy"])
RECURSIVE MergeByName(_, _, _, _)
MergeByName(all, seen, results, tag) ==
    IF results = << >> THEN [all |-> all, seen |-> seen]
    ELSE LET r == results[1]
             key == NameLower(r.name)
         IN  IF key \in seen
             THEN MergeByName(all, seen, Tail(results), tag)
             ELSE MergeByName(
                      Append(all, IF tag = Null THEN r
                                  ELSE [r EXCEPT !.discovery_strategy = tag]),
                      seen \cup {key}, Tail(results), tag)

\* a slip: the "Dedupe by name" pass is left out
DedupeByNameSkipped(all) == all

\* the "Dedupe by name" pass of discover_businesses
DedupeByName(all) == MergeByName(<< >>, {}, all, Null).all

\* a slip: the list is left in discovery order
SortByScoreSkipped(records) == records

\* a slip: a sort that is not stable (records of equal score come out reversed)
SortByScoreUnstable(records) ==
    LET n == Len(records)
        reversed == [i \in 1..n |-> records[n + 1 - i]]
    IN  SortDesc(reversed, [i \in 1..n |-> reversed[i].priority_score])

\* records.sort(key=priority_score, reverse=True)
SortByScore(records) ==
    SortDesc(records, [i \in 1..Len(records) |-> records[i].priority_score])

\* seq[:n]
Prefix(seq, n) == SubSeq(seq, 1, IF Len(seq) < n THEN Len(seq) ELSE n)

\* client.get(url) raises (connection error, timeout)
FetchError == [error |-> TRUE, status |-> 0, page |-> Null]

\* client.get(url): an exception, or a response with a status code and a page
FetchResponses ==
    {FetchError} \cup {[error |-> FALSE, status |-> 404, page |-> Null]}
                 \cup {[error |-> FALSE, status |-> 200, page |-> p] : p \in Pages}

NoDetails == [email |-> Null, phone |-> Null, address |-> Null, whatsapp |-> Null]

\* _fetch_page_details, given what client.get did
FetchPageDetails(resp) ==
    IF resp.error THEN NoDetails
    ELSE IF resp.status # 200 THEN NoDetails
    ELSE LET p == Page(resp.page)
         IN  [email |-> p.email, phone |-> p.phone,
              address |-> p.address, whatsapp |-> p.whatsapp]

\* how many records of the sorted list each operation enriches
EnrichTop(operation) == IF operation = "discover_businesses" THEN 5 ELSE 10

\* the merge of the fetched details into one record
MergeDetails(operation, biz, details) ==
    LET e == IF details.email # Null /\ biz.email = Null
             THEN details.email ELSE biz.email
        p == IF details.phone # Null /\ biz.phone = Null
             THEN details.phone ELSE biz.phone
        w == IF operation = "discover_businesses"
             THEN IF details.whatsapp # Null /\ biz.whatsapp = Null
                  THEN details.whatsapp ELSE biz.whatsapp
             ELSE IF details.whatsapp # Null
                  THEN details.whatsapp ELSE biz.whatsapp
        a == IF details.address # Null THEN details.address ELSE biz.address
    IN  [biz EXCEPT !.email = e, !.phone = p, !.whatsapp = w, !.address = a]

(***************************************************************************)
(* scrape_website_contacts, enrich_lead, enrich_leads_batch                *)
(***************************************************************************)
\* str(e) of the exception client.get raised; a timeout's message is empty
ExceptionMessages == {"", "All connection attempts failed"}

\* str(e) of the ValueError urljoin raises inside _find_contact_pages
UrlJoinMessage == "Invalid IPv6 URL"

\* client.get(url) as scrape_website_contacts sees it
ScrapeResponses ==
    {[error |-> TRUE, message |-> m, status |-> 0, page |-> Null] : m \in ExceptionMessages}
      \cup {[error |-> FALSE, message |-> Null, status |-> 404, page |-> Null]}
      \cup {[error |-> FALSE, message |-> Null, status |-> 200, page |-> p] : p \in Pages}

\* the answers the fetcher gives while a batch of leads is enriched
BatchResponses ==
    {r \in ScrapeResponses :
        \/ r.error /\ r.message # ""
        \/ r.status = 200 /\ r.page \in {"contact", "about"}}

\* f"HTTP {response.status_code}"
HttpError(status) == CASE status = 404 -> "HTTP 404"

\* the website values of the model ("<no key>": the lead has no "website"
\* key): whether lead.get("website", "") is falsy, whether it is a str,
\* whether it starts with "http", and "https://" + website
WebsiteTable ==
    {[website |-> "",                       empty |-> TRUE,
      is_str |-> TRUE,  starts_http |-> FALSE, prefixed |-> "https://"],
     [website |-> "<no key>",               empty |-> TRUE,
      is_str |-> TRUE,  starts_http |-> FALSE, prefixed |-> "https://"],
     [website |-> "acmesports.in",          empty |-> FALSE,
      is_str |-> TRUE,  starts_http |-> FALSE, prefixed |-> "https://acmesports.in"],
     [website |-> "https://acmesports.in/", empty |-> FALSE,
      is_str |-> TRUE,  starts_http |-> TRUE,
      prefixed |-> "https://https://acmesports.in/"],
     [website |-> "<int 12345>",            empty |-> FALSE,
      is_str |-> FALSE, starts_http |-> FALSE, prefixed |-> Null]}

WebsiteInfo ==
    [w \in {r.website : r \in WebsiteTable} |-> CHOOSE r \in WebsiteTable : r.website = w]

\* the order list(set(contact_pages)) yields depends on the process's string
\* hashes; the model has two orders, picked by hash_seed
ContactUrlOrder ==
    << "https://acmesports.in/", "https://acmesports.in/about-us",
       "https://acmesports.in/contact", "https://acmesports.in/dealer/mumbai",
       "https://acmesports.in/enquiry", "https://evil.example/contact?ref=acmesports.in" >>

HashSeeds == {0, 1}

\* list(set(urls)) under the given hash seed
ListOfSet(urls, seed) ==
    LET n == Len(ContactUrlOrder)
        ranked_urls == IF seed = 0 THEN ContactUrlOrder
                       ELSE [i \in 1..n |-> ContactUrlOrder[n + 1 - i]]
        member == {i \in 1..n : ranked_urls[i] \in urls}
    IN  [k \in 1..Cardinality(member) |->
            ranked_urls[CHOOSE i \in member :
                            Cardinality({j \in member : j <= i}) = k]]

\* the URLs the fetcher is asked for in the model
WebUrls ==
    {ContactUrlOrder[i] : i \in 1..Len(ContactUrlOrder)} \cup {"https://acmesports.in"}

\* no answer given yet
Unasked == [error |-> FALSE, message |-> Null, status |-> 0, page |-> Null]

\* the result dict scrape_website_contacts starts with
NewResult(url) ==
    [url |-> url, email |-> Null, phone |-> Null, whatsapp |-> Null,
     address |-> Null, contact_person |-> Null, social_links |-> {},
     pages_scraped |-> << >>, success |-> FALSE, error |-> Null]

\* a slip: the failure is not recorded in the result
SeedFailedSilently(result, resp) == result

\* the seed fetch raised, or answered with a status other than 200
SeedFailed(result, resp) ==
    IF resp.error THEN [result EXCEPT !.error = resp.message]
    ELSE [result EXCEPT !.error = HttpError(resp.status)]

\* the seed page was fetched: pages_scraped, contacts, address, social links
SeedScraped(result, url, page) ==
    [result EXCEPT
        !.pages_scraped = Append(@, url),
        !.email = IF page.email # Null THEN page.email ELSE @,
        !.phone = IF page.phone # Null THEN page.phone ELSE @,
        !.whatsapp = IF page.whatsapp # Null THEN page.whatsapp ELSE @,
        !.address = IF page.address # Null THEN page.address ELSE @,
        !.social_links = page.social_links]

\* a slip: every contact page found is visited
ContactPagesToVisitAll(page, seed) == ListOfSet(page.contact_pages, seed)

\* contact_pages[:3]
ContactPagesToVisit(page, seed) == Prefix(ListOfSet(page.contact_pages, seed), 3)

\* the loop skips the pages already in pages_scraped
RECURSIVE SkipScraped(_, _)
SkipScraped(todo, result) ==
    IF todo = << >> THEN todo
    ELSE IF \E k \in 1..Len(result.pages_scraped) : result.pages_scraped[k] = todo[1]
         THEN SkipScraped(Tail(todo), result)
         ELSE todo

\* a slip: what a secondary page holds replaces what was found before
PageScrapedOverwriting(result, page_url, page) ==
    [result EXCEPT
        !.pages_scraped = Append(@, page_url),
        !.email = IF page.email # Null THEN page.email ELSE @,
        !.phone = IF page.phone # Null THEN page.phone ELSE @,
        !.whatsapp = IF page.whatsapp # Null THEN page.whatsapp ELSE @,
        !.address = IF page.address # Null THEN page.address ELSE @]

\* a secondary page answered 200: fill what the aggregate still misses
PageScraped(result, page_url, page) ==
    [result EXCEPT
        !.pages_scraped = Append(@, page_url),
        !.email = IF page.email # Null /\ @ = Null THEN page.email ELSE @,
        !.phone = IF page.phone # Null /\ @ = Null THEN page.phone ELSE @,
        !.whatsapp = IF page.whatsapp # Null /\ @ = Null THEN page.whatsapp ELSE @,
        !.address = IF @ = Null /\ page.address # Null THEN page.address ELSE @]

\* result["success"] = bool(result.get("email") or result.get("phone"))
WithSuccess(result) ==
    [result EXCEPT !.success = (result.email # Null \/ result.phone # Null)]

\* the exception handler of scrape_website_contacts: result["error"] = str(e)
WithError(result, message) == [result EXCEPT !.error = message]

\* a slip: the scraped value always replaces the lead's
MergeFieldOverwriting(old, found) == IF found # Null THEN found ELSE old

\* if scraped.get(f) and not lead.get(f): lead[f] = scraped[f]
MergeField(old, found) == IF found # Null /\ old = Null THEN found ELSE old

\* a slip: the crawl's pages are appended to the ones the lead already lists
EnrichedPagesAppended(lead, scraped) == lead.pages_scraped \o scraped.pages_scraped

\* lead["pages_scraped"] = scraped.get("pages_scraped", [])
EnrichedPages(lead, scraped) == scraped.pages_scraped

\* enrich_lead after the crawl: the merge, the flag and the page list
MergeScraped(lead, scraped) ==
    [lead EXCEPT
        !.email = MergeField(@, scraped.email),
        !.phone = MergeField(@, scraped.phone),
        !.whatsapp = MergeField(@, scraped.whatsapp),
        !.address = MergeField(@, scraped.address),
        !.enriched = TRUE,
        !.pages_scraped = EnrichedPages(lead, scraped),
        !.keys = @ \cup {"enriched", "pages_scraped"}]

\* a lead dict: the contact fields, and which optional keys it has
Lead(name, website, email, phone, whatsapp, address) ==
    [name |-> name, website |-> website, email |-> email, phone |-> phone,
     whatsapp |-> whatsapp, address |-> address,
     enriched |-> FALSE, pages_scraped |-> << >>, keys |-> {}]

\* the leads enrich_lead is called with in the model
Leads ==
    {Lead("A", "acmesports.in", Null, Null, Null, Null),
     Lead("B", "https://acmesports.in/", "old@lead.in", "+910000000000", Null, Null),
     Lead("C", "acmesports.in", Null, Null, "+911111111111", "Old Street 1"),
     Lead("D", "", "old@lead.in", Null, Null, Null),
     Lead("E", "<int 12345>", Null, Null, Null, Null),
     Lead("F", "<no key>", Null, "+910000000000", Null, Null)}

\* the leads a batch is made of in the model
BatchLeads ==
    {Lead("A", "acmesports.in", Null, Null, Null, Null),
     Lead("D", "", "old@lead.in", Null, Null, Null),
     Lead("E", "<int 12345>", Null, Null, Null, Null)}

\* the URLs scrape_website_contacts is called with directly
ScrapeUrls == {"https://acmesports.in/", "https://acmesports.in"}

\* the longest list of leads and the largest max_concurrent in the model
MaxLeads == 3

MaxConcurrent == 2

NoLead == Lead(Null, "", Null, Null, Null, Null)

\* a coroutine: enrich_lead(lead) or scrape_website_contacts(url, follow)
\* pc: pending, get_seed, get_page, done, raised; started: when it began to run
NewTask(kind, lead, url, follow) ==
    [kind |-> kind, pc |-> "pending", lead_in |-> lead, url |-> url,
     follow |-> follow, result |-> NewResult(url), todo |-> << >>,
     fetches |-> 0, seed_ok |-> FALSE, out |-> lead, started |-> 0, client |-> 0]


(***************************************************************************)
(* discover_from_curated_list                                              *)
(***************************************************************************)
\* self.curated_companies: name, city, website, additional_urls
curated_companies ==
    << [name |-> "JOOLA India", city |-> "Bengaluru", website |-> "https://joola.in",
      additional_urls |-> << "https://joola.in/pages/authorized-distributors", "https://joola.in/pages/contact-us" >>],
       [name |-> "Selection Centre Sports (SCS Sports)", city |-> "Mumbai", website |-> "https://scssports.in",
      additional_urls |-> << "https://scssports.in/contact-us" >>],
       [name |-> "Pickleball Outlet", city |-> "Hyderabad", website |-> "https://pickleballoutlet.in",
      additional_urls |-> << "https://pickleballoutlet.in/contact" >>],
       [name |-> "Cialfo Sports", city |-> "Chennai", website |-> "https://cialfosports.com",
      additional_urls |-> << "https://cialfosports.com/contact" >>],
       [name |-> "Sporfy Store", city |-> "Coimbatore", website |-> "https://sporfystore.com",
      additional_urls |-> << "https://sporfystore.com/contact-us" >>],
       [name |-> "Fyre Sports", city |-> "Jaipur", website |-> "https://fyresports.in",
      additional_urls |-> << "https://fyresports.in/contact" >>],
       [name |-> "Play IQ", city |-> "Bengaluru", website |-> "https://playiq.in",
      additional_urls |-> << "https://playiq.in/contact" >>],
       [name |-> "Lodhi Sports", city |-> "Delhi", website |-> "https://lodhisport.com",
      additional_urls |-> << "https://lodhisport.com/contact-us" >>],
       [name |-> "Vinex Enterprises", city |-> "Meerut", website |-> "https://www.vinex.in",
      additional_urls |-> << "https://www.vinex.in/Pickleball-Equipment.html", "https://www.vinex.in/contact-us.html" >>],
       [name |-> "Metco Sports India", city |-> "Meerut", website |-> "https://www.metcosportsindia.com",
      additional_urls |-> << "https://www.metcosportsindia.com/pickleball-pole-paddles-and-equipment.html", "https://www.metcosportsindia.com/contact-us.html" >>],
       [name |-> "Strokess Sporting Solutions", city |-> "Vadodara", website |-> "https://strokess.com",
      additional_urls |-> << "https://strokess.com/contact" >>],
       [name |-> "Total Pickleball", city |-> "Jaipur", website |-> "https://www.indiamart.com/total-pickleball",
      additional_urls |-> << "https://www.indiamart.com/total-pickleball/fitness-equipments.html", "https://www.indiamart.com/total-pickleball/aboutus.html" >>],
       [name |-> "Cosco India", city |-> "Delhi", website |-> "https://www.cosco.in",
      additional_urls |-> << "https://www.cosco.in/contact-us" >>],
       [name |-> "Nivia Sports", city |-> "Jalandhar", website |-> "https://niviasports.com",
      additional_urls |-> << "https://niviasports.com/contact-us" >>],
       [name |-> "Vector X Sports", city |-> "Meerut", website |-> "https://vectorxsports.com",
      additional_urls |-> << "https://vectorxsports.com/contact" >>],
       [name |-> "Sports 365", city |-> "Mumbai", website |-> "https://www.sports365.in",
      additional_urls |-> << "https://www.sports365.in/contact-us" >>],
       [name |-> "Racquet Point", city |-> "Delhi", website |-> "https://racquetpoint.in",
      additional_urls |-> << "https://racquetpoint.in/contact" >>],
       [name |-> "Meerut Sports Industries Association", city |-> "Meerut", website |-> "https://www.meerutsports.com",
      additional_urls |-> << "https://www.meerutsports.com/contact" >>],
       [name |-> "Sports Wing", city |-> "Chennai", website |-> "https://sportswing.in",
      additional_urls |-> << "https://sportswing.in/contact-us" >>] >>

\* str.lower() of the cities of the table and of the city filters of the model
CityLower ==
    [c \in {"", "Bengaluru", "Chennai", "Coimbatore", "DELHI", "Delhi", "Hyderabad", "Jaipur", "Jalandhar", "Meerut", "Mumbai", "Pune", "Vadodara", "meerut"} |->
        CASE c = "" -> ""
          [] c = "Bengaluru" -> "bengaluru"
          [] c = "Chennai" -> "chennai"
          [] c = "Coimbatore" -> "coimbatore"
          [] c = "DELHI" -> "delhi"
          [] c = "Delhi" -> "delhi"
          [] c = "Hyderabad" -> "hyderabad"
          [] c = "Jaipur" -> "jaipur"
          [] c = "Jalandhar" -> "jalandhar"
          [] c = "Meerut" -> "meerut"
          [] c = "Mumbai" -> "mumbai"
          [] c = "Pune" -> "pune"
          [] c = "Vadodara" -> "vadodara"
          [] c = "meerut" -> "meerut"]

\* the city arguments of the model; "" stands for no filter (None or "")
CityFilters == {"", "meerut", "DELHI", "Mumbai", "Pune"}

\* the k-th smallest member of a set of indices, k = 1..its size
InOrder(indices) ==
    [k \in 1..Cardinality(indices) |->
        CHOOSE i \in indices : Cardinality({j \in indices : j <= i}) = k]

\* companies = self.curated_companies, or those whose city.lower() equals
\* city.lower() when a city is given; as indices into the table
CuratedFor(city) ==
    IF city = "" THEN InOrder(DOMAIN curated_companies)
    ELSE InOrder({i \in DOMAIN curated_companies :
                     CityLower[curated_companies[i].city] = CityLower[city]})

\* the business dict built for a company from the aggregate of its crawls
CuratedBusiness(company, scraped) ==
    [name |-> company.name, city |-> company.city, website |-> company.website,
     email |-> scraped.email, phone |-> scraped.phone,
     whatsapp |-> scraped.whatsapp, address |-> scraped.address,
     source |-> "curated_list", priority_score |-> 15,
     pages_scraped |-> Len(scraped.pages_scraped),
     social_links |-> scraped.social_links]

\* the sort key (bool(email), bool(phone)) as a number that orders the same way
ContactKey(r) ==
    (IF r.email # Null THEN 2 ELSE 0) + (IF r.phone # Null THEN 1 ELSE 0)

\* a slip: the records are left in the order of the table
SortByContactSkipped(results) == results

\* results.sort(key=(bool(email), bool(phone)), reverse=True)
SortByContact(results) ==
    SortDesc(results, [i \in 1..Len(results) |-> ContactKey(results[i])])

\* an additional URL's result fills what the aggregate still misses
MergeAdditional(scraped, add_scraped) ==
    [scraped EXCEPT
        !.email = MergeField(@, add_scraped.email),
        !.phone = MergeField(@, add_scraped.phone),
        !.whatsapp = MergeField(@, add_scraped.whatsapp),
        !.address = MergeField(@, add_scraped.address)]

\* what the fetcher answers while the curated list is crawled in the model:
\* a connection error, or a page without links to contact pages
CuratedResponses ==
    {r \in ScrapeResponses :
        \/ r.error /\ r.message # ""
        \/ r.status = 200 /\ r.page \in {"call", "broken"}}

\* at most this many companies of a run are served a page in the model
MaxFound == 2

\* the locals of discover_from_curated_list before it is called
NoCurated ==
    [city |-> "", companies |-> << >>, at |-> 0, add_at |-> 0, stage |-> "idle",
     scraped |-> NewResult(Null), results |-> << >>]

(***************************************************************************)
(* _extract_contact_info(text, html_soup): what its regular expressions    *)
(* find in the texts and links of the model.  emails[i] = re.findall of    *)
(* email_patterns[i]; phones[i] = the first match of phone_patterns[i],    *)
(* whether its digits are 10 to 13, and the phone as formatted;            *)
(* whatsapps[i] = the first match of whatsapp_patterns[i], whether wa_num  *)
(* has 10 characters or more, and the number as formatted.                 *)
(***************************************************************************)
\* the pattern matches nothing in the text
NoPhone == [found |-> FALSE, valid |-> FALSE, phone |-> Null]

NoWhatsapp == [found |-> FALSE, long_enough |-> FALSE, number |-> Null]

ExtractTable ==
    {[text |-> "",
      emails |-> <<<<>>, <<>>, <<>>>>,
      phones |-> <<NoPhone, NoPhone, NoPhone, NoPhone, NoPhone, NoPhone>>,
      whatsapps |-> <<NoWhatsapp, NoWhatsapp, NoWhatsapp, NoWhatsapp, NoWhatsapp>>],
     [text |-> "Call 9876543210 now",
      emails |-> <<<<>>, <<>>, <<>>>>,
      phones |-> <<NoPhone, NoPhone, NoPhone, NoPhone, [found |-> TRUE, valid |-> TRUE, phone |-> "+919876543210"], [found |-> TRUE, valid |-> TRUE, phone |-> "+919876543210"]>>,
      whatsapps |-> <<NoWhatsapp, NoWhatsapp, NoWhatsapp, NoWhatsapp, NoWhatsapp>>],
     [text |-> "Dealer enquiry sales@acme.in",
      emails |-> <<<<"sales@acme.in">>, <<"sales@acme.in">>, <<>>>>,
      phones |-> <<NoPhone, NoPhone, NoPhone, NoPhone, NoPhone, NoPhone>>,
      whatsapps |-> <<NoWhatsapp, NoWhatsapp, NoWhatsapp, NoWhatsapp, NoWhatsapp>>],
     [text |-> "WhatsApp: +91 91234 56780",
      emails |-> <<<<>>, <<>>, <<>>>>,
      phones |-> <<[found |-> TRUE, valid |-> TRUE, phone |-> "+919123456780"], NoPhone, NoPhone, NoPhone, NoPhone, NoPhone>>,
      whatsapps |-> <<[found |-> TRUE, long_enough |-> TRUE, number |-> "+919123456780"], NoWhatsapp, NoWhatsapp, NoWhatsapp, NoWhatsapp>>],
     [text |-> "WhatsApp: +91 99887 76655",
      emails |-> <<<<>>, <<>>, <<>>>>,
      phones |-> <<[found |-> TRUE, valid |-> TRUE, phone |-> "+919988776655"], NoPhone, NoPhone, NoPhone, NoPhone, NoPhone>>,
      whatsapps |-> <<[found |-> TRUE, long_enough |-> TRUE, number |-> "+919988776655"], NoWhatsapp, NoWhatsapp, NoWhatsapp, NoWhatsapp>>],
     [text |-> "Write to admin @ acme.in",
      emails |-> <<<<>>, <<"admin @ acme.in">>, <<>>>>,
      phones |-> <<NoPhone, NoPhone, NoPhone, NoPhone, NoPhone, NoPhone>>,
      whatsapps |-> <<NoWhatsapp, NoWhatsapp, NoWhatsapp, NoWhatsapp, NoWhatsapp>>],
     [text |-> "Mail support [at] acme.in or sales@acme.in",
      emails |-> <<<<"sales@acme.in">>, <<"sales@acme.in">>, <<"support [at] acme.in">>>>,
      phones |-> <<NoPhone, NoPhone, NoPhone, NoPhone, NoPhone, NoPhone>>,
      whatsapps |-> <<NoWhatsapp, NoWhatsapp, NoWhatsapp, NoWhatsapp, NoWhatsapp>>],
     [text |-> "Mail support [at] acme.in",
      emails |-> <<<<>>, <<>>, <<"support [at] acme.in">>>>,
      phones |-> <<NoPhone, NoPhone, NoPhone, NoPhone, NoPhone, NoPhone>>,
      whatsapps |-> <<NoWhatsapp, NoWhatsapp, NoWhatsapp, NoWhatsapp, NoWhatsapp>>],
     [text |-> "noreply@acme.in info@acme.in",
      emails |-> <<<<"noreply@acme.in", "info@acme.in">>, <<"noreply@acme.in", "info@acme.in">>, <<>>>>,
      phones |-> <<NoPhone, NoPhone, NoPhone, NoPhone, NoPhone, NoPhone>>,
      whatsapps |-> <<NoWhatsapp, NoWhatsapp, NoWhatsapp, NoWhatsapp, NoWhatsapp>>],
     [text |-> "test@example.com",
      emails |-> <<<<"test@example.com">>, <<"test@example.com">>, <<>>>>,
      phones |-> <<NoPhone, NoPhone, NoPhone, NoPhone, NoPhone, NoPhone>>,
      whatsapps |-> <<NoWhatsapp, NoWhatsapp, NoWhatsapp, NoWhatsapp, NoWhatsapp>>],
     [text |-> "WhatsApp 98765-43210",
      emails |-> <<<<>>, <<>>, <<>>>>,
      phones |-> <<NoPhone, NoPhone, NoPhone, NoPhone, NoPhone, NoPhone>>,
      whatsapps |-> <<[found |-> TRUE, long_enough |-> TRUE, number |-> "+919876543210"], NoWhatsapp, NoWhatsapp, NoWhatsapp, NoWhatsapp>>],
     [text |-> "Call 080-26543210 WhatsApp 98765-43210",
      emails |-> <<<<>>, <<>>, <<>>>>,
      phones |-> <<NoPhone, NoPhone, NoPhone, [found |-> TRUE, valid |-> TRUE, phone |-> "08026543210"], NoPhone, NoPhone>>,
      whatsapps |-> <<[found |-> TRUE, long_enough |-> TRUE, number |-> "+919876543210"], NoWhatsapp, NoWhatsapp, NoWhatsapp, NoWhatsapp>>],
     [text |-> "Fax 012 345678",
      emails |-> <<<<>>, <<>>, <<>>>>,
      phones |-> <<NoPhone, NoPhone, NoPhone, [found |-> TRUE, valid |-> FALSE, phone |-> Null], NoPhone, NoPhone>>,
      whatsapps |-> <<NoWhatsapp, NoWhatsapp, NoWhatsapp, NoWhatsapp, NoWhatsapp>>],
     [text |-> "sales @ acme.in",
      emails |-> <<<<>>, <<"sales @ acme.in">>, <<>>>>,
      phones |-> <<NoPhone, NoPhone, NoPhone, NoPhone, NoPhone, NoPhone>>,
      whatsapps |-> <<NoWhatsapp, NoWhatsapp, NoWhatsapp, NoWhatsapp, NoWhatsapp>>]}

ExtractTexts == {r.text : r \in ExtractTable}

TextInfo == [t \in ExtractTexts |-> CHOOSE r \in ExtractTable : r.text = t]

\* a match of an email pattern: whether any(x in e.lower() for x in [...])
\* holds for the match as found, and e.replace(" ", "").replace("[at]", "@")
RawEmailTable ==
    {[raw |-> "admin @ acme.in", denied |-> FALSE, normalized |-> "admin@acme.in"],
     [raw |-> "info@acme.in", denied |-> FALSE, normalized |-> "info@acme.in"],
     [raw |-> "noreply@acme.in", denied |-> TRUE, normalized |-> "noreply@acme.in"],
     [raw |-> "sales @ acme.in", denied |-> FALSE, normalized |-> "sales@acme.in"],
     [raw |-> "sales@acme.in", denied |-> FALSE, normalized |-> "sales@acme.in"],
     [raw |-> "support [at] acme.in", denied |-> FALSE, normalized |-> "support@acme.in"],
     [raw |-> "test@example.com", denied |-> TRUE, normalized |-> "test@example.com"]}

RawEmail == [e \in {r.raw : r \in RawEmailTable} |-> CHOOSE r \in RawEmailTable : r.raw = e]

\* an address in its final form: whether a term of the deny-list of the text
\* patterns occurs in it
AddressTable ==
    {[address |-> "admin@acme.in", has_deny_term |-> TRUE],
     [address |-> "info@acme.in", has_deny_term |-> FALSE],
     [address |-> "noreply@acme.in", has_deny_term |-> TRUE],
     [address |-> "owner@acme.in", has_deny_term |-> FALSE],
     [address |-> "sales@acme.in", has_deny_term |-> FALSE],
     [address |-> "support@acme.in", has_deny_term |-> TRUE],
     [address |-> "test@example.com", has_deny_term |-> TRUE]}

HasDenyTerm == [a \in {r.address : r \in AddressTable} |->
                   (CHOOSE r \in AddressTable : r.address = a).has_deny_term]

\* the href of an <a href="mailto:..."> tag: whether the mailto regular
\* expression matches, its group 1, and whether any(x in email.lower() for x
\* in ['example', 'noreply', 'wixpress']) holds
MailtoTable ==
    {[href |-> "mailto:?subject=hi", matched |-> FALSE, address |-> Null, denied |-> FALSE],
     [href |-> "mailto:admin@acme.in", matched |-> TRUE, address |-> "admin@acme.in", denied |-> FALSE],
     [href |-> "mailto:noreply@acme.in", matched |-> TRUE, address |-> "noreply@acme.in", denied |-> TRUE],
     [href |-> "mailto:owner@acme.in", matched |-> TRUE, address |-> "owner@acme.in", denied |-> FALSE]}

Mailto == [h \in {r.href : r \in MailtoTable} |-> CHOOSE r \in MailtoTable : r.href = h]

\* the href of an <a href="tel:..."> tag: whether the tel regular expression
\* matches, whether the digits are 10 to 13, and the phone as formatted
TelTable ==
    {[href |-> "tel:+91 98765 43210", matched |-> TRUE, valid |-> TRUE, phone |-> "+919876543210"],
     [href |-> "tel:080-2654-3210", matched |-> TRUE, valid |-> TRUE, phone |-> "+918026543210"],
     [href |-> "tel:12345", matched |-> FALSE, valid |-> FALSE, phone |-> Null]}

Tel == [h \in {r.href : r \in TelTable} |-> CHOOSE r \in TelTable : r.href = h]

\* the mailto: links of a page, in document order
MailtoLinks == {<<>>, <<"mailto:owner@acme.in">>, <<"mailto:admin@acme.in">>, <<"mailto:noreply@acme.in", "mailto:owner@acme.in">>, <<"mailto:?subject=hi">>}

\* the tel: links of a page, in document order
TelLinks == {<<>>, <<"tel:+91 98765 43210">>, <<"tel:12345">>, <<"tel:080-2654-3210">>}

\* the first element of seq that satisfies Test, or 0
FirstIndex(seq, Test(_)) ==
    IF \E i \in 1..Len(seq) : Test(seq[i])
    THEN CHOOSE i \in 1..Len(seq) :
            Test(seq[i]) /\ \A j \in 1..(i - 1) : ~ Test(seq[j])
    ELSE 0

\* filtered_emails of one pattern: the matches that pass the deny-list,
\* each in its normalized form
FilteredEmails(matches) ==
    LET kept == SelectSeq(matches, LAMBDA e : ~ RawEmail[e].denied)
    IN  [i \in 1..Len(kept) |-> RawEmail[kept[i]].normalized]

\* the loop over email_patterns: filtered_emails[0] of the first pattern
\* that has any
EmailFromText(text) ==
    LET lists == TextInfo[text].emails
        at == FirstIndex(lists, LAMBDA l : FilteredEmails(l) # << >>)
    IN  IF at = 0 THEN Null ELSE FilteredEmails(lists[at])[1]

\* the loop over the mailto: links
EmailFromMailto(links) ==
    LET at == FirstIndex(links, LAMBDA h : Mailto[h].matched /\ ~ Mailto[h].denied)
    IN  IF at = 0 THEN Null ELSE Mailto[links[at]].address

\* the loop over phone_patterns: the first pattern whose first match has a
\* valid length
PhoneFromText(text) ==
    LET rows == TextInfo[text].phones
        at == FirstIndex(rows, LAMBDA r : r.found /\ r.valid)
    IN  IF at = 0 THEN Null ELSE rows[at].phone

\* the loop over the tel: links
PhoneFromTel(links) ==
    LET at == FirstIndex(links, LAMBDA h : Tel[h].matched /\ Tel[h].valid)
    IN  IF at = 0 THEN Null ELSE Tel[links[at]].phone

\* the loop over whatsapp_patterns: the first pattern whose first match
\* leaves 10 characters or more
WhatsappFromText(text) ==
    LET rows == TextInfo[text].whatsapps
        at == FirstIndex(rows, LAMBDA r : r.found /\ r.long_enough)
    IN  IF at = 0 THEN Null ELSE rows[at].number

\* a slip: the number is recorded as whatsapp only
WithWhatsappOnly(contact, number) ==
    IF number = Null THEN contact
    ELSE [contact EXCEPT !.whatsapp = number]

\* contact["whatsapp"] = ...; if not contact.get("phone"): contact["phone"] = it
WithWhatsapp(contact, number) ==
    IF number = Null THEN contact
    ELSE [contact EXCEPT !.whatsapp = number,
                         !.phone = IF contact.phone = Null THEN number ELSE @]

\* the hosts of the URLs of the model: whether the host is a domain of
\* skip_domains or a subdomain of one, and whether it is a domain of
\* priority_domains or a subdomain of one
HostTable ==
    {[netloc |-> "www.indiamart.com", skip_listed |-> FALSE, directory |-> TRUE],
     [netloc |-> "www.tradeindia.com", skip_listed |-> FALSE, directory |-> TRUE],
     [netloc |-> "www.justdial.com", skip_listed |-> FALSE, directory |-> TRUE],
     [netloc |-> "in.linkedin.com", skip_listed |-> FALSE, directory |-> TRUE],
     [netloc |-> "dir.sulekha.com", skip_listed |-> FALSE, directory |-> TRUE],
     [netloc |-> "www.alibaba.com", skip_listed |-> FALSE, directory |-> TRUE],
     [netloc |-> "www.exportersindia.com", skip_listed |-> FALSE, directory |-> TRUE],
     [netloc |-> "www.yellowpages.co.in", skip_listed |-> FALSE, directory |-> TRUE],
     [netloc |-> "acmesports.in", skip_listed |-> FALSE, directory |-> FALSE],
     [netloc |-> "smashpickle.com", skip_listed |-> FALSE, directory |-> FALSE],
     [netloc |-> "www.youtube.com", skip_listed |-> TRUE, directory |-> FALSE],
     [netloc |-> "WWW.IndiaMART.com", skip_listed |-> FALSE, directory |-> TRUE]}

HostInfo == [h \in {r.netloc : r \in HostTable} |-> CHOOSE r \in HostTable : r.netloc = h]

\* no hit is being looked at
NoHit == [href |-> "", title |-> "", body |-> ""]

\* contact = {}
NoContact == [email |-> Null, phone |-> Null, whatsapp |-> Null]

\* no _extract_contact_info call is running
NoExtract ==
    [stage |-> "idle", text |-> "", has_soup |-> FALSE, mailto |-> << >>,
     tel |-> << >>, contact |-> NoContact]

vars ==
    <<pc, u1, u2, score1, score2, request_count, http_client, clients_created,
      limiter_calls, requests,
      op, strategy, limit, strat, tmpl, search, queried, failed, no_error_run, twin,
      all_results, seen_names, ranked, idx, returned,
      hash_seed, web, replay, tasks, call, first,
      leads, max_concurrent, batch_at, enriched, finished,
      clock, last_request_time, calls, made, prev_made, proceeded, curated, extract, hit>>

engine_vars == <<request_count, http_client, clients_created, limiter_calls, requests>>
priority_vars == <<u1, u2, score1, score2>>
discover_vars ==
    <<op, strategy, limit, strat, tmpl, search, queried, failed, no_error_run, twin,
      all_results, seen_names, ranked, idx, returned>>

scrape_vars == <<hash_seed, web, replay, tasks, call, first>>
batch_vars == <<leads, max_concurrent, batch_at, enriched, finished>>
rate_vars == <<clock, last_request_time, calls, made, prev_made, proceeded>>
curated_vars == <<curated>>
extract_vars == <<extract>>
hit_vars == <<hit>>

\* the variables a specification does not use stay at these values
IdleEngine ==
    /\ request_count = 0
    /\ http_client = 0
    /\ clients_created = 0
    /\ limiter_calls = 0
    /\ requests = 0

IdlePriority ==
    /\ u1 = Null
    /\ u2 = Null
    /\ score1 = 0
    /\ score2 = 0

IdleDiscover ==
    /\ op = Null
    /\ strategy = Null
    /\ limit = 0
    /\ strat = 0
    /\ tmpl = 0
    /\ search = Null
    /\ queried = 0
    /\ failed = 0
    /\ no_error_run = Null
    /\ twin = Null
    /\ all_results = << >>
    /\ seen_names = {}
    /\ ranked = << >>
    /\ idx = 0
    /\ returned = Null

IdleScrape ==
    /\ hash_seed = 0
    /\ web = [u \in WebUrls |-> Unasked]
    /\ replay = FALSE
    /\ tasks = << >>
    /\ call = 0
    /\ first = NoLead

IdleBatch ==
    /\ leads = << >>
    /\ max_concurrent = 0
    /\ batch_at = 0
    /\ enriched = << >>
    /\ finished = << >>

\* the clock is not observed
IdleRate ==
    /\ clock = 0
    /\ last_request_time = 0
    /\ calls = 0
    /\ made = 0
    /\ prev_made = 0
    /\ proceeded = 0

IdleCurated == curated = NoCurated

IdleExtract == extract = NoExtract

IdleHit == hit = NoHit

(***************************************************************************)
(* Specification SpecPriority: two calls of _get_url_priority.             *)
(***************************************************************************)
InitPriority ==
    /\ pc = "priority_start"
    /\ u1 \in URLS
    /\ u2 \in URLS
    /\ score1 = 0
    /\ score2 = 0
    /\ IdleEngine
    /\ IdleDiscover
    /\ IdleScrape
    /\ IdleBatch
    /\ IdleRate
    /\ IdleCurated
    /\ IdleExtract
    /\ IdleHit

ScoreUrls ==
    /\ pc = "priority_start"
    /\ score1' = GetUrlPriority(u1)
    /\ score2' = GetUrlPriority(u2)
    /\ pc' = "priority_done"
    /\ UNCHANGED <<u1, u2, engine_vars, discover_vars, scrape_vars, batch_vars, rate_vars, curated_vars, extract_vars, hit_vars>>

NextPriority == ScoreUrls

SpecPriority == InitPriority /\ [][NextPriority]_vars

\* the score the domain table assigns: the highest among the matching entries
HighestTableScore(url) ==
    Max({PriorityDomains[i].score : i \in MatchingEntries(url)})

\* C9: priority(url) is the highest score among all matching domain-table
\* entries (also when several match), else 5 when the URL contains
\* /company/, /supplier/, /manufacturer/ or /dealer/, else 1; the same URL
\* always gets the same score.
C9_PriorityIsHighestMatch ==
    pc = "priority_done" =>
        /\ score1 = (IF MatchingEntries(u1) # {} THEN HighestTableScore(u1)
                     ELSE IF \E p \in BusinessPatterns : InUrl(p, u1) THEN 5
                     ELSE 1)
        /\ (u1 = u2 => score1 = score2)

\* a URL matching several table entries of different scores has been scored
C9_Witness ==
    /\ pc = "priority_done"
    /\ Cardinality({PriorityDomains[i].score : i \in MatchingEntries(u1)}) > 1
    /\ score1 = 10

(***************************************************************************)
(* Specification SpecDiscover: one discover_businesses or deep_search     *)
(* call.  Every provider query and every page fetch is a step; what the   *)
(* provider and the fetcher answer is chosen at the step.                 *)
(***************************************************************************)
InitDiscover ==
    /\ pc = "idle"
    /\ IdlePriority
    /\ IdleEngine
    /\ IdleDiscover
    /\ IdleScrape
    /\ IdleBatch
    /\ IdleRate
    /\ IdleCurated
    /\ IdleExtract
    /\ IdleHit

\* discover_businesses(city, lim) / deep_search(city, lim) is called
StartDiscovery ==
    /\ pc = "idle"
    /\ \E operation \in {"discover_businesses", "deep_search"}, lim \in 1..MaxLimit :
          /\ op' = operation
          /\ limit' = lim
    /\ strategy' = Null
    /\ strat' = 1
    /\ tmpl' = 1
    /\ search' = NewSearch
    /\ no_error_run' = NewSearch
    /\ twin' = twin
    /\ queried' = 0
    /\ failed' = 0
    /\ pc' = "search"
    /\ UNCHANGED <<all_results, seen_names, ranked, idx, returned,
                   priority_vars, rate_vars, curated_vars, scrape_vars, batch_vars, engine_vars, extract_vars, hit_vars>>

Current == Plan(op, strategy, limit)[strat]

LoopDone ==
    \/ tmpl > Current.templates
    \/ Len(search.results) >= Current.max_results

\* _search_with_templates: one turn of the loop over the templates
QueryTemplate ==
    /\ pc = "search"
    /\ ~ LoopDone
    /\ \E resp \in ProviderResponses :
          /\ search' = ProcessResponse(search, resp, Current.max_results)
          /\ no_error_run' =
                ProcessResponse(no_error_run,
                                [error |-> FALSE, hits |-> resp.hits],
                                Current.max_results)
          /\ failed' = IF resp.error THEN 1 ELSE failed
          /\ twin' = IF op = "discover_by_strategy"
                     THEN TwinTurn(twin, resp, limit) ELSE twin
    /\ request_count' = RateLimit(request_count)
    /\ limiter_calls' = RateLimited(limiter_calls)
    /\ requests' = requests + 1
    /\ queried' = queried + 1
    /\ tmpl' = tmpl + 1
    /\ UNCHANGED <<pc, op, strategy, limit, strat, all_results, seen_names, ranked, idx, returned,
                   priority_vars, rate_vars, curated_vars, scrape_vars, batch_vars, http_client, clients_created, extract_vars, hit_vars>>

\* what the caller does with the list a _search_with_templates call returned
Merged ==
    IF Current.by_name
    THEN MergeByName(all_results, seen_names, search.results, Current.tag)
    ELSE [all |-> all_results \o search.results, seen |-> seen_names]

\* _search_with_templates returns and the next strategy starts
NextStrategy ==
    /\ pc = "search"
    /\ LoopDone
    /\ strat < Len(Plan(op, strategy, limit))
    /\ all_results' = Merged.all
    /\ seen_names' = Merged.seen
    /\ strat' = strat + 1
    /\ tmpl' = 1
    /\ search' = NewSearch
    /\ no_error_run' = NewSearch
    /\ twin' = twin
    /\ queried' = 0
    /\ failed' = 0
    /\ UNCHANGED <<pc, op, strategy, limit, ranked, idx, returned, priority_vars, rate_vars, curated_vars, scrape_vars, batch_vars, engine_vars, extract_vars, hit_vars>>

\* the last _search_with_templates call returns: dedupe, sort, truncate
RankResults ==
    /\ pc = "search"
    /\ LoopDone
    /\ op # "discover_by_strategy"
    /\ strat = Len(Plan(op, strategy, limit))
    /\ all_results' = Merged.all
    /\ seen_names' = Merged.seen
    /\ ranked' = IF op = "discover_businesses"
                 THEN Prefix(SortByScore(DedupeByName(Merged.all)), limit)
                 ELSE SortByScore(Merged.all)
    /\ idx' = 1
    /\ pc' = "enrich"
    /\ UNCHANGED <<op, strategy, limit, strat, tmpl, search, no_error_run, twin, queried, failed,
                   returned, priority_vars, rate_vars, curated_vars, scrape_vars, batch_vars, engine_vars, extract_vars, hit_vars>>

EnrichDone == idx > Len(Prefix(ranked, EnrichTop(op)))

\* one turn of the enrichment loop: _fetch_page_details and the merge
EnrichRecord ==
    /\ pc = "enrich"
    /\ ~ EnrichDone
    /\ \E resp \in FetchResponses :
          ranked' = [ranked EXCEPT
                        ![idx] = MergeDetails(op, @, FetchPageDetails(resp))]
    /\ http_client' = GetHttpClient(http_client, clients_created).client
    /\ clients_created' = GetHttpClient(http_client, clients_created).created
    /\ request_count' = RateLimit(request_count)
    /\ limiter_calls' = RateLimited(limiter_calls)
    /\ requests' = requests + 1
    /\ idx' = idx + 1
    /\ UNCHANGED <<pc, op, strategy, limit, strat, tmpl, search, no_error_run, twin, queried, failed,
                   all_results, seen_names, returned, priority_vars, rate_vars, curated_vars, scrape_vars, batch_vars, extract_vars, hit_vars>>

\* the operation returns
ReturnResults ==
    /\ pc = "enrich"
    /\ EnrichDone
    /\ returned' = IF op = "discover_businesses" THEN ranked ELSE Prefix(ranked, limit)
    /\ pc' = "done"
    /\ UNCHANGED <<op, strategy, limit, strat, tmpl, search, no_error_run, twin, queried, failed,
                   all_results, seen_names, ranked, idx, priority_vars, rate_vars, curated_vars, scrape_vars, batch_vars, engine_vars, extract_vars, hit_vars>>

(***************************************************************************)
(* Specification SpecStrategy: one discover_by_strategy call.              *)
(***************************************************************************)
\* discover_by_strategy(city, id, lim) is called
StartStrategy ==
    /\ pc = "idle"
    /\ \E id \in StrategyIds, lim \in 1..MaxLimit :
          /\ strategy' = id
          /\ limit' = lim
    /\ op' = "discover_by_strategy"
    /\ strat' = 1
    /\ tmpl' = 1
    /\ search' = NewSearch
    /\ no_error_run' = NewSearch
    /\ twin' = NewTwin
    /\ queried' = 0
    /\ failed' = 0
    /\ pc' = "search"
    /\ UNCHANGED <<all_results, seen_names, ranked, idx, returned,
                   priority_vars, rate_vars, curated_vars, scrape_vars, batch_vars, engine_vars, extract_vars, hit_vars>>

\* return await self._search_with_templates(templates, city, limit)
ReturnStrategy ==
    /\ pc = "search"
    /\ LoopDone
    /\ op = "discover_by_strategy"
    /\ returned' = search.results
    /\ pc' = "done"
    /\ UNCHANGED <<op, strategy, limit, strat, tmpl, search, no_error_run, twin, queried,
                   failed, all_results, seen_names, ranked, idx,
                   priority_vars, rate_vars, curated_vars, scrape_vars, batch_vars, engine_vars, extract_vars, hit_vars>>

NextDiscover ==
    \/ StartDiscovery
    \/ QueryTemplate
    \/ NextStrategy
    \/ RankResults
    \/ EnrichRecord
    \/ ReturnResults

SpecDiscover == InitDiscover /\ [][NextDiscover]_vars

(***************************************************************************)
(* Properties of discover_businesses, deep_search and discover_by_strategy *)
(***************************************************************************)
\* C1: no two records returned by one discover_businesses call have the
\* same lower-cased name, whatever the search provider answered.
C1_NoDuplicateNames ==
    (pc = "done" /\ op = "discover_businesses") =>
        \A i, j \in 1..Len(returned) :
            i < j => NameLower(returned[i].name) # NameLower(returned[j].name)

\* two sub-strategies found the same lower-cased name and the call returned
C1_Witness ==
    /\ pc = "done"
    /\ op = "discover_businesses"
    /\ returned # << >>
    /\ \E i, j \in 1..Len(all_results) :
          /\ i < j
          /\ NameLower(all_results[i].name) = NameLower(all_results[j].name)

\* C2: no two records returned by one discover_businesses call have the
\* same website, also when the same URL came back under different titles to
\* two different sub-strategies.
C2_NoDuplicateWebsites ==
    (pc = "done" /\ op = "discover_businesses") =>
        \A i, j \in 1..Len(returned) :
            i < j => returned[i].website # returned[j].website

\* C8: a provider error for one template never aborts _search_with_templates:
\* the call keeps what it had collected, every template up to the loop's end
\* is handed to the provider, and what it returns is what it would have
\* returned had each failing query answered with no hits.
C8_ProviderErrorSkipsTemplate ==
    /\ pc = "search" =>
          /\ search.results = no_error_run.results
          /\ queried = tmpl - 1
          /\ LoopDone => \/ queried = Current.templates
                         \/ Len(search.results) >= Current.max_results
    /\ (pc = "done" /\ op = "discover_by_strategy" /\ strategy # "curated") =>
          returned = no_error_run.results

\* a query failed, and the call returned records all the same
C8_Witness ==
    /\ pc = "done"
    /\ op = "discover_by_strategy"
    /\ failed = 1
    /\ returned # << >>

\* the URL matches an entry of the domain table
Listed(url) == MatchingEntries(url) # {}

\* every listed URL scores strictly higher than every unlisted one
ListedScoresHigher ==
    \A a, b \in URLS :
        (Listed(a) /\ ~ Listed(b)) => GetUrlPriority(a) > GetUrlPriority(b)

\* C10: a URL matching a domain-table entry scores strictly higher than
\* every URL matching none (with or without a business path segment), so no
\* record from an unlisted domain precedes a record from a listed one in a
\* discover_businesses or deep_search result.
C10_ListedOutranksUnlisted ==
    (pc = "done" /\ op \in {"discover_businesses", "deep_search"}) =>
        /\ ListedScoresHigher
        /\ \A i, j \in 1..Len(returned) :
              i < j => ~ (~ Listed(returned[i].website) /\ Listed(returned[j].website))

\* an unlisted record was discovered before a listed one and both were returned
C10_Witness ==
    /\ pc = "done"
    /\ op \in {"discover_businesses", "deep_search"}
    /\ \E i, j \in 1..Len(all_results) :
          /\ i < j
          /\ ~ Listed(all_results[i].website)
          /\ Listed(all_results[j].website)
    /\ \E i, j \in 1..Len(returned) :
          /\ Listed(returned[i].website)
          /\ ~ Listed(returned[j].website)

(***************************************************************************)
(* The coroutines.  A step runs a coroutine from one suspension point (an  *)
(* awaited client.get) to the next, or to its end.                         *)
(***************************************************************************)
\* what client.get(url) may answer: with replay, a URL answered before is
\* answered the same way again
Answers(url, responses) ==
    IF replay /\ web[url] # Unasked THEN {web[url]} ELSE responses

Remember(url, resp) == IF replay THEN [web EXCEPT ![url] = resp] ELSE web

\* scrape_website_contacts returns result to the coroutine that called it:
\* enrich_lead merges it into its lead and returns
Finish(task, result) ==
    [task EXCEPT !.pc = "done", !.result = result, !.todo = << >>,
                 !.out = IF task.kind = "enrich"
                         THEN MergeScraped(task.lead_in, result) ELSE @]

\* the contact-page loop: skip the pages already scraped, then either fetch
\* the next one or leave the loop, set success and return
VisitNext(task, result, todo) ==
    LET rest == SkipScraped(todo, result)
    IN  IF rest = << >> THEN Finish(task, WithSuccess(result))
        ELSE [task EXCEPT !.pc = "get_page", !.result = result, !.todo = rest,
                          !.fetches = @ + 1]

\* scrape_website_contacts from the seed's response on
AfterSeed(task, resp) ==
    IF resp.error \/ resp.status # 200
    THEN Finish(task, SeedFailed(task.result, resp))
    ELSE LET page == Page(resp.page)
             scraped == SeedScraped(task.result, task.url, page)
             seeded == [task EXCEPT !.seed_ok = TRUE]
         IN  IF ~ task.follow THEN Finish(seeded, WithSuccess(scraped))
             ELSE IF page.find_raises
                  THEN Finish(seeded, WithError(scraped, UrlJoinMessage))
                  ELSE VisitNext(seeded, scraped,
                                 ContactPagesToVisit(page, hash_seed))

\* scrape_website_contacts from a secondary page's response on
AfterPage(task, resp) ==
    LET page_url == task.todo[1]
        result == IF ~ resp.error /\ resp.status = 200
                  THEN PageScraped(task.result, page_url, Page(resp.page))
                  ELSE task.result
    IN  VisitNext(task, result, Tail(task.todo))

\* a slip: a lead without a website is flagged as enriched all the same
BegunFlagging(task) ==
    IF task.kind = "scrape"
    THEN [task EXCEPT !.pc = "get_seed", !.fetches = 1]
    ELSE LET w == WebsiteInfo[task.lead_in.website]
         IN  IF w.empty
             THEN [task EXCEPT !.pc = "done",
                               !.out = MergeScraped(task.lead_in, NewResult(Null))]
             ELSE IF ~ w.is_str THEN [task EXCEPT !.pc = "raised"]
             ELSE LET url == IF w.starts_http THEN w.website ELSE w.prefixed
                  IN  [task EXCEPT !.pc = "get_seed", !.url = url,
                                   !.result = NewResult(url), !.fetches = 1]

\* enrich_lead up to the seed fetch: the early return, the scheme
Begun(task) ==
    IF task.kind = "scrape"
    THEN [task EXCEPT !.pc = "get_seed", !.fetches = 1]
    ELSE LET w == WebsiteInfo[task.lead_in.website]
         IN  IF w.empty THEN [task EXCEPT !.pc = "done"]
             ELSE IF ~ w.is_str THEN [task EXCEPT !.pc = "raised"]
             ELSE LET url == IF w.starts_http THEN w.website ELSE w.prefixed
                  IN  [task EXCEPT !.pc = "get_seed", !.url = url,
                                   !.result = NewResult(url), !.fetches = 1]

\* what the step leaves behind: the coroutine's state, the rate limiter's
\* count when a request was issued, and the coroutine's outcome when it ended
Advance(t, task, issued) ==
    /\ tasks' = [tasks EXCEPT ![t] = task]
    /\ request_count' = IF issued THEN RateLimit(request_count) ELSE request_count
    /\ limiter_calls' = IF issued THEN RateLimited(limiter_calls) ELSE limiter_calls
    /\ requests' = IF issued THEN requests + 1 ELSE requests
    /\ finished' = IF task.pc \in {"done", "raised"} /\ op = "enrich_leads_batch"
                   THEN ((batch_at + t) :> [raised |-> task.pc = "raised",
                                            out |-> task.out,
                                            ended |-> clock]) @@ finished
                   ELSE finished

\* the event loop starts the coroutines in the order they were created
TaskBegin(t) ==
    /\ pc \in {"running", "gather"}
    /\ t \in DOMAIN tasks
    /\ tasks[t].pc = "pending"
    /\ \A s \in 1..(t - 1) : tasks[s].pc # "pending"
    /\ LET begun == Begun(tasks[t])
           issued == begun.pc = "get_seed"
           got == GetHttpClient(http_client, clients_created)
           task == [begun EXCEPT !.started = clock,
                                 !.client = IF issued THEN got.client ELSE @]
       IN  /\ Advance(t, task, issued)
           /\ http_client' = IF issued THEN got.client ELSE http_client
           /\ clients_created' = IF issued THEN got.created ELSE clients_created
    /\ UNCHANGED <<pc, web, replay, hash_seed, call, first, leads, max_concurrent,
                   batch_at, enriched, priority_vars, rate_vars, curated_vars, discover_vars, extract_vars, hit_vars>>

\* the seed's response arrives
SeedResponse(t, responses) ==
    /\ pc \in {"running", "gather"}
    /\ t \in DOMAIN tasks
    /\ tasks[t].pc = "get_seed"
    /\ \E resp \in Answers(tasks[t].url, responses) :
          LET task == AfterSeed(tasks[t], resp)
          IN  /\ Advance(t, task, task.pc = "get_page")
              /\ web' = Remember(tasks[t].url, resp)
    /\ UNCHANGED <<pc, replay, hash_seed, call, first, leads, max_concurrent,
                   batch_at, enriched, http_client, clients_created,
                   priority_vars, rate_vars, curated_vars, discover_vars, extract_vars, hit_vars>>

\* a secondary page's response arrives
PageResponse(t, responses) ==
    /\ pc \in {"running", "gather"}
    /\ t \in DOMAIN tasks
    /\ tasks[t].pc = "get_page"
    /\ \E resp \in Answers(tasks[t].todo[1], responses) :
          LET task == AfterPage(tasks[t], resp)
          IN  /\ Advance(t, task, task.pc = "get_page")
              /\ web' = Remember(tasks[t].todo[1], resp)
    /\ UNCHANGED <<pc, replay, hash_seed, call, first, leads, max_concurrent,
                   batch_at, enriched, http_client, clients_created,
                   priority_vars, rate_vars, curated_vars, discover_vars, extract_vars, hit_vars>>

(***************************************************************************)
(* Specification SpecEnrich: scrape_website_contacts called once, or       *)
(* enrich_lead called on a lead and then again on the lead it returned,    *)
(* the fetcher answering each URL the second time as it did the first.     *)
(***************************************************************************)
InitEnrich ==
    /\ pc = "idle"
    /\ IdlePriority
    /\ IdleEngine
    /\ IdleDiscover
    /\ hash_seed \in HashSeeds
    /\ web = [u \in WebUrls |-> Unasked]
    /\ replay = TRUE
    /\ tasks = << >>
    /\ call = 0
    /\ first = NoLead
    /\ IdleBatch
    /\ IdleRate
    /\ IdleCurated
    /\ IdleExtract
    /\ IdleHit

StartEnrichLead ==
    /\ pc = "idle"
    /\ \E lead \in Leads : tasks' = << NewTask("enrich", lead, Null, TRUE) >>
    /\ op' = "enrich_lead"
    /\ call' = 1
    /\ pc' = "running"
    /\ UNCHANGED <<strategy, limit, strat, tmpl, search, queried, failed, no_error_run, twin,
                   all_results, seen_names, ranked, idx, returned,
                   web, replay, hash_seed, first, batch_vars,
                   priority_vars, rate_vars, curated_vars, engine_vars, extract_vars, hit_vars>>

StartScrape ==
    /\ pc = "idle"
    /\ \E url \in ScrapeUrls, follow \in BOOLEAN :
          tasks' = << NewTask("scrape", NoLead, url, follow) >>
    /\ op' = "scrape_website_contacts"
    /\ call' = 1
    /\ pc' = "running"
    /\ UNCHANGED <<strategy, limit, strat, tmpl, search, queried, failed, no_error_run, twin,
                   all_results, seen_names, ranked, idx, returned,
                   web, replay, hash_seed, first, batch_vars,
                   priority_vars, rate_vars, curated_vars, engine_vars, extract_vars, hit_vars>>

\* enrich_lead returned; it is called again on the lead it returned
SecondCall ==
    /\ pc = "running"
    /\ op = "enrich_lead"
    /\ call = 1
    /\ tasks[1].pc = "done"
    /\ first' = tasks[1].out
    /\ tasks' = << NewTask("enrich", tasks[1].out, Null, TRUE) >>
    /\ call' = 2
    /\ UNCHANGED <<pc, web, replay, hash_seed, batch_vars,
                   priority_vars, rate_vars, curated_vars, engine_vars, discover_vars, extract_vars, hit_vars>>

\* the call (the second one, for enrich_lead) is over
CallOver ==
    /\ pc = "running"
    /\ \/ tasks[1].pc = "raised"
       \/ tasks[1].pc = "done" /\ (op = "scrape_website_contacts" \/ call = 2)
    /\ pc' = "done"
    /\ UNCHANGED <<tasks, web, replay, hash_seed, call, first, batch_vars,
                   priority_vars, rate_vars, curated_vars, engine_vars, discover_vars, extract_vars, hit_vars>>

NextEnrich ==
    \/ StartEnrichLead
    \/ StartScrape
    \/ TaskBegin(1)
    \/ SeedResponse(1, ScrapeResponses)
    \/ PageResponse(1, ScrapeResponses)
    \/ SecondCall
    \/ CallOver

SpecEnrich == InitEnrich /\ [][NextEnrich]_vars

(***************************************************************************)
(* Specification SpecBatch: one enrich_leads_batch call.                   *)
(***************************************************************************)
InitBatch ==
    /\ pc = "idle"
    /\ IdlePriority
    /\ IdleEngine
    /\ IdleDiscover
    /\ hash_seed \in HashSeeds
    /\ web = [u \in WebUrls |-> Unasked]
    /\ replay = FALSE
    /\ tasks = << >>
    /\ call = 0
    /\ first = NoLead
    /\ IdleBatch
    /\ IdleRate
    /\ IdleCurated
    /\ IdleExtract
    /\ IdleHit

\* enrich_leads_batch(ls, mc) is called
StartBatchCall ==
    /\ pc = "idle"
    /\ \E ls \in SeqsUpTo(BatchLeads, MaxLeads), mc \in 1..MaxConcurrent :
          /\ leads' = ls
          /\ max_concurrent' = mc
    /\ op' = "enrich_leads_batch"
    /\ batch_at' = 0
    /\ enriched' = << >>
    /\ finished' = << >>
    /\ pc' = "batch_loop"
    /\ UNCHANGED <<strategy, limit, strat, tmpl, search, queried, failed, no_error_run, twin,
                   all_results, seen_names, ranked, idx, returned,
                   tasks, web, replay, hash_seed, call, first,
                   priority_vars, rate_vars, curated_vars, engine_vars, extract_vars, hit_vars>>

\* a slip: every lead not yet enriched is started at once
BatchUnbounded == SubSeq(leads, batch_at + 1, Len(leads))

\* leads[i:i+max_concurrent]
Batch ==
    SubSeq(leads, batch_at + 1,
           IF batch_at + max_concurrent < Len(leads)
           THEN batch_at + max_concurrent ELSE Len(leads))

\* tasks = [self.enrich_lead(lead.copy()) for lead in batch]; gather(*tasks)
GatherBatch ==
    /\ pc = "batch_loop"
    /\ batch_at < Len(leads)
    /\ tasks' = [j \in 1..Len(Batch) |-> NewTask("enrich", Batch[j], Null, TRUE)]
    /\ pc' = "gather"
    /\ UNCHANGED <<web, replay, hash_seed, call, first, batch_vars,
                   priority_vars, rate_vars, curated_vars, engine_vars, discover_vars, extract_vars, hit_vars>>

\* a slip: the results are taken in the reverse of the order of the batch
CollectedReversed(so_far, batch, done_tasks) ==
    so_far \o [j \in 1..Len(done_tasks) |->
                  IF done_tasks[Len(done_tasks) + 1 - j].pc = "raised"
                  THEN batch[Len(done_tasks) + 1 - j]
                  ELSE done_tasks[Len(done_tasks) + 1 - j].out]

\* for j, result in enumerate(batch_results): the member itself if its
\* coroutine raised, else what the coroutine returned
Collected(so_far, batch, done_tasks) ==
    so_far \o [j \in 1..Len(done_tasks) |->
                  IF done_tasks[j].pc = "raised" THEN batch[j] ELSE done_tasks[j].out]

\* gather returns once every coroutine of the batch has ended
CollectBatch ==
    /\ pc = "gather"
    /\ \A t \in DOMAIN tasks : tasks[t].pc \in {"done", "raised"}
    /\ enriched' = Collected(enriched, Batch, tasks)
    /\ tasks' = << >>
    /\ pc' = "batch_sleep"
    /\ UNCHANGED <<web, replay, hash_seed, call, first, leads, max_concurrent,
                   batch_at, finished, priority_vars, rate_vars, curated_vars, engine_vars, discover_vars, extract_vars, hit_vars>>

\* await asyncio.sleep(2), then the next turn of the loop over the batches
BatchSleep ==
    /\ pc = "batch_sleep"
    /\ clock' = clock + 2
    /\ batch_at' = batch_at + max_concurrent
    /\ pc' = "batch_loop"
    /\ UNCHANGED <<tasks, web, replay, hash_seed, call, first, leads, max_concurrent,
                   enriched, finished, last_request_time, calls, made, prev_made,
                   proceeded, priority_vars, curated_vars, engine_vars, discover_vars, extract_vars, hit_vars>>

\* return enriched
ReturnBatch ==
    /\ pc = "batch_loop"
    /\ batch_at >= Len(leads)
    /\ pc' = "done"
    /\ UNCHANGED <<tasks, web, replay, hash_seed, call, first, batch_vars,
                   priority_vars, rate_vars, curated_vars, engine_vars, discover_vars, extract_vars, hit_vars>>

NextBatch ==
    \/ StartBatchCall
    \/ GatherBatch
    \/ \E t \in 1..MaxConcurrent : TaskBegin(t)
    \/ \E t \in 1..MaxConcurrent : SeedResponse(t, BatchResponses)
    \/ \E t \in 1..MaxConcurrent : PageResponse(t, BatchResponses)
    \/ CollectBatch
    \/ BatchSleep
    \/ ReturnBatch

SpecBatch == InitBatch /\ [][NextBatch]_vars

(***************************************************************************)
(* Properties of scrape_website_contacts, enrich_lead, enrich_leads_batch  *)
(***************************************************************************)
ContactFields == {"email", "phone", "whatsapp", "address"}

\* the coroutine called scrape_website_contacts and the call has returned
Scraped(task) == task.pc = "done" /\ task.fetches >= 1

\* C3: enrich_leads_batch returns as many leads as it was given, and
\* position i holds what enrich_lead returned for input lead i, or input
\* lead i itself when enriching it raised; a member that raised neither
\* removes nor moves the results of the others.
C3_BatchKeepsOrderAndLength ==
    (pc = "done" /\ op = "enrich_leads_batch") =>
        /\ Len(enriched) = Len(leads)
        /\ \A i \in 1..Len(leads) :
              /\ i \in DOMAIN finished
              /\ enriched[i].name = leads[i].name
              /\ enriched[i] = IF finished[i].raised THEN leads[i] ELSE finished[i].out

\* three leads went through in batches of two; the first one raised and is
\* returned as given, a later one came back with an email the crawl found
C3_Witness ==
    /\ pc = "done"
    /\ op = "enrich_leads_batch"
    /\ Len(leads) = 3
    /\ max_concurrent = 2
    /\ finished[1].raised
    /\ enriched[1] = leads[1]
    /\ \E i \in 2..3 :
          /\ ~ finished[i].raised
          /\ leads[i].email = Null
          /\ enriched[i].email # Null
          /\ enriched[i].enriched

\* C4: enrich_lead on a lead with a non-empty website keeps every email,
\* phone, whatsapp and address the lead already had, fills an empty one with
\* the crawl's value when the crawl found one, sets enriched, and makes
\* pages_scraped the crawl's pages_scraped, whatever the crawl's outcome.
C4_MergeKeepsExistingFields ==
    \A t \in DOMAIN tasks :
        (tasks[t].kind = "enrich" /\ Scraped(tasks[t])) =>
            LET lead == tasks[t].lead_in
                scraped == tasks[t].result
                out == tasks[t].out
            IN  /\ \A f \in ContactFields :
                      /\ lead[f] # Null => out[f] = lead[f]
                      /\ (lead[f] = Null /\ scraped[f] # Null) => out[f] = scraped[f]
                /\ out.enriched
                /\ out.pages_scraped = scraped.pages_scraped

\* the crawl found an email other than the one the lead had, and a whatsapp
\* number the lead lacked
C4_Witness ==
    /\ op = "enrich_lead"
    /\ call = 1
    /\ Scraped(tasks[1])
    /\ tasks[1].lead_in.email # Null
    /\ tasks[1].result.email # Null
    /\ tasks[1].result.email # tasks[1].lead_in.email
    /\ tasks[1].out.email = tasks[1].lead_in.email
    /\ tasks[1].lead_in.whatsapp = Null
    /\ tasks[1].out.whatsapp # Null

\* C5: with a fetcher that answers every URL the second time as it did the
\* first, enrich_lead applied to the lead it returned returns that same
\* lead: same contact fields, same enriched flag, same pages_scraped.
C5_EnrichTwiceIsEnrichOnce ==
    (pc = "done" /\ op = "enrich_lead" /\ call = 2 /\ tasks[1].pc = "done") =>
        tasks[1].out = first

\* the second call crawled two pages or more again, on a lead the first call
\* had given an email
C5_Witness ==
    /\ pc = "done"
    /\ op = "enrich_lead"
    /\ call = 2
    /\ tasks[1].pc = "done"
    /\ tasks[1].fetches >= 2
    /\ first.name = "A"
    /\ first.email # Null
    /\ Len(first.pages_scraped) >= 2
    /\ tasks[1].out = first

\* C6: scrape_website_contacts raises nothing; when the seed fetch raised or
\* answered with a status other than 200, the result has success False, an
\* error ("HTTP <code>" for the status), no email, no phone, no page in
\* pages_scraped, and no further page was fetched.
C6_SeedFailureIsReported ==
    \A t \in DOMAIN tasks :
        /\ tasks[t].kind = "scrape" => tasks[t].pc # "raised"
        /\ (Scraped(tasks[t]) /\ ~ tasks[t].seed_ok) =>
              /\ tasks[t].result.success = FALSE
              /\ tasks[t].result.error # Null
              /\ ~ web[tasks[t].url].error =>
                    tasks[t].result.error = HttpError(web[tasks[t].url].status)
              /\ tasks[t].result.email = Null
              /\ tasks[t].result.phone = Null
              /\ tasks[t].result.pages_scraped = << >>
              /\ tasks[t].fetches = 1

\* the seed answered 404 and the call returned with "HTTP 404"
C6_Witness ==
    /\ pc = "done"
    /\ op = "scrape_website_contacts"
    /\ tasks[1].follow
    /\ Scraped(tasks[1])
    /\ ~ tasks[1].seed_ok
    /\ web[tasks[1].url].status = 404
    /\ tasks[1].result.error = "HTTP 404"

\* C7: in every result scrape_website_contacts returns, success is True
\* exactly when the result has an email or a phone, also when an exception
\* was raised after the seed page's contacts had been extracted.
C7_SuccessIffContactFound ==
    \A t \in DOMAIN tasks :
        Scraped(tasks[t]) =>
            (tasks[t].result.success <=>
                (tasks[t].result.email # Null \/ tasks[t].result.phone # Null))

(***************************************************************************)
(* Specification SpecRate: a sequence of _rate_limit calls, with time      *)
(* passing between them.                                                   *)
(***************************************************************************)
\* the most calls and the latest time between calls in the model
MaxCalls == 23

MaxClock == 6

\* time.sleep(2 - elapsed) when the count has passed 10 and less than two
\* seconds went by since self._last_request_time; else no sleep
RateLimitSleep(count, now, last) ==
    IF count + 1 > 10 /\ now - last < 2 THEN 2 - (now - last) ELSE 0

InitRate ==
    /\ pc = "rate"
    /\ IdlePriority
    /\ IdleEngine
    /\ IdleDiscover
    /\ IdleScrape
    /\ IdleBatch
    /\ IdleRate
    /\ IdleCurated
    /\ IdleExtract
    /\ IdleHit

\* a second goes by
Tick ==
    /\ pc = "rate"
    /\ clock < MaxClock
    /\ clock' = clock + 1
    /\ UNCHANGED <<pc, last_request_time, calls, made, prev_made, proceeded,
                   priority_vars, engine_vars, discover_vars, scrape_vars, batch_vars,
                   curated_vars, extract_vars, hit_vars>>

\* self._rate_limit()
CallRateLimit ==
    /\ pc = "rate"
    /\ calls < MaxCalls
    /\ calls' = calls + 1
    /\ request_count' = RateLimit(request_count)
    /\ limiter_calls' = RateLimited(limiter_calls)
    /\ requests' = requests
    /\ clock' = clock + RateLimitSleep(request_count, clock, last_request_time)
    /\ last_request_time' = clock
    /\ prev_made' = made
    /\ made' = clock
    /\ proceeded' = clock'
    /\ UNCHANGED <<pc, http_client, clients_created,
                   priority_vars, discover_vars, scrape_vars, batch_vars, curated_vars, extract_vars, hit_vars>>

NextRate ==
    \/ Tick
    \/ CallRateLimit

SpecRate == InitRate /\ [][NextRate]_vars

\* C14: the rate limiter pauses after every 10 requests: for every k >= 1,
\* call number 10k+1 does not return before two seconds have gone by since
\* call number 10k was made.
C14_PauseAfterEveryTenCalls ==
    (calls > 10 /\ calls % 10 = 1) => proceeded >= prev_made + 2

(***************************************************************************)
(* discover_from_curated_list, called directly or by discover_by_strategy  *)
(* with the strategy "curated".  The crawls are the coroutine steps of     *)
(* scrape_website_contacts.                                                *)
(***************************************************************************)
Company == curated_companies[curated.companies[curated.at]]

\* the records collected so far that have an email or a phone
Found == {i \in 1..Len(curated.results) : ContactKey(curated.results[i]) > 0}

\* what the fetcher answers during the run
CuratedAnswers ==
    IF Cardinality(Found) >= MaxFound
    THEN {r \in CuratedResponses : r.error}
    ELSE CuratedResponses

\* the entry of discover_from_curated_list(city)
EnterCurated(city) ==
    /\ curated' = [NoCurated EXCEPT !.city = city, !.companies = CuratedFor(city),
                                    !.at = 1, !.stage = "main"]
    /\ pc' = "curated"

\* discover_from_curated_list(city) is called
StartCurated ==
    /\ pc = "idle"
    /\ \E city \in CityFilters : EnterCurated(city)
    /\ op' = "discover_from_curated_list"
    /\ UNCHANGED <<strategy, limit, strat, tmpl, search, queried, failed, no_error_run, twin,
                   all_results, seen_names, ranked, idx, returned,
                   priority_vars, engine_vars, scrape_vars, batch_vars, rate_vars, extract_vars, hit_vars>>

\* discover_by_strategy(city, "curated", lim) is called
StartCuratedStrategy ==
    /\ pc = "idle"
    /\ \E city \in CityFilters \ {""} : EnterCurated(city)
    /\ \E lim \in 1..MaxLimit : limit' = lim
    /\ strategy' = "curated"
    /\ op' = "discover_by_strategy"
    /\ UNCHANGED <<strat, tmpl, search, queried, failed, no_error_run, twin,
                   all_results, seen_names, ranked, idx, returned,
                   priority_vars, engine_vars, scrape_vars, batch_vars, rate_vars, extract_vars, hit_vars>>

\* scraped = await self.scrape_website_contacts(website, follow_contact_pages=True)
ScrapeCompany ==
    /\ pc = "curated"
    /\ curated.stage = "main"
    /\ curated.at <= Len(curated.companies)
    /\ tasks' = << NewTask("scrape", NoLead, Company.website, TRUE) >>
    /\ pc' = "running"
    /\ UNCHANGED <<curated, web, replay, hash_seed, call, first,
                   priority_vars, engine_vars, discover_vars, batch_vars, rate_vars, extract_vars, hit_vars>>

\* the crawl of the company's website returned
MainScraped ==
    /\ pc = "running"
    /\ curated.stage = "main"
    /\ tasks[1].pc = "done"
    /\ curated' = [curated EXCEPT !.scraped = tasks[1].result, !.add_at = 1,
                                  !.stage = "additional"]
    /\ pc' = "curated"
    /\ UNCHANGED <<priority_vars, engine_vars, discover_vars, scrape_vars, batch_vars,
                   rate_vars, extract_vars, hit_vars>>

\* for add_url in additional_urls: skip it if already scraped, else
\* self._rate_limit() and scrape_website_contacts(add_url, False)
ScrapeAdditional ==
    /\ pc = "curated"
    /\ curated.stage = "additional"
    /\ curated.add_at <= Len(Company.additional_urls)
    /\ LET add_url == Company.additional_urls[curated.add_at]
           scraped_already ==
               \E k \in 1..Len(curated.scraped.pages_scraped) :
                   curated.scraped.pages_scraped[k] = add_url
       IN  IF scraped_already
           THEN /\ curated' = [curated EXCEPT !.add_at = @ + 1]
                /\ UNCHANGED <<pc, tasks, request_count, limiter_calls, requests, extract_vars, hit_vars>>
           ELSE /\ curated' = [curated EXCEPT !.stage = "add_running"]
                /\ request_count' = RateLimit(request_count)
                /\ limiter_calls' = RateLimited(limiter_calls)
                /\ requests' = requests
                /\ tasks' = << NewTask("scrape", NoLead, add_url, FALSE) >>
                /\ pc' = "running"
    /\ UNCHANGED <<http_client, clients_created, web, replay, hash_seed, call, first,
                   priority_vars, discover_vars, batch_vars, rate_vars, extract_vars, hit_vars>>

\* the crawl of the additional URL returned
AdditionalScraped ==
    /\ pc = "running"
    /\ curated.stage = "add_running"
    /\ tasks[1].pc = "done"
    /\ curated' = [curated EXCEPT
                      !.scraped = MergeAdditional(@, tasks[1].result),
                      !.add_at = @ + 1, !.stage = "additional"]
    /\ pc' = "curated"
    /\ UNCHANGED <<priority_vars, engine_vars, discover_vars, scrape_vars, batch_vars,
                   rate_vars, extract_vars, hit_vars>>

\* results.append(business); await asyncio.sleep(1)
RecordCompany ==
    /\ pc = "curated"
    /\ curated.stage = "additional"
    /\ curated.add_at > Len(Company.additional_urls)
    /\ curated' = [curated EXCEPT
                      !.results = Append(@, CuratedBusiness(Company, curated.scraped)),
                      !.at = @ + 1, !.stage = "main"]
    /\ UNCHANGED <<pc, priority_vars, engine_vars, discover_vars, scrape_vars, batch_vars,
                   rate_vars, extract_vars, hit_vars>>

\* results.sort(...); return results (discover_by_strategy returns it as it is)
ReturnCurated ==
    /\ pc = "curated"
    /\ curated.stage = "main"
    /\ curated.at > Len(curated.companies)
    /\ returned' = SortByContact(curated.results)
    /\ pc' = "done"
    /\ UNCHANGED <<op, strategy, limit, strat, tmpl, search, queried, failed, no_error_run, twin,
                   all_results, seen_names, ranked, idx, curated,
                   priority_vars, engine_vars, scrape_vars, batch_vars, rate_vars, extract_vars, hit_vars>>

CuratedSteps ==
    \/ ScrapeCompany
    \/ TaskBegin(1)
    \/ SeedResponse(1, CuratedAnswers)
    \/ MainScraped
    \/ ScrapeAdditional
    \/ AdditionalScraped
    \/ RecordCompany
    \/ ReturnCurated

NextCurated ==
    \/ StartCurated
    \/ CuratedSteps

(***************************************************************************)
(* Specification SpecCurated: one discover_from_curated_list call.         *)
(***************************************************************************)
SpecCurated == InitDiscover /\ [][NextCurated]_vars

NextStrategyCall ==
    \/ StartStrategy
    \/ QueryTemplate
    \/ ReturnStrategy
    \/ StartCuratedStrategy
    \/ CuratedSteps

SpecStrategy == InitDiscover /\ [][NextStrategyCall]_vars

(***************************************************************************)
(* Properties of discover_by_strategy and discover_from_curated_list       *)
(***************************************************************************)
\* the call returned more records than its limit
OverLimit == Len(returned) > limit

\* a provider query is issued although limit records are already collected
QueryPastLimit ==
    /\ op = "discover_by_strategy"
    /\ pc = "search"
    /\ Len(search.results) >= limit
    /\ queried' > queried

\* C11: discover_by_strategy returns at most limit records for every
\* strategy id (the eight named ones, an unknown one, and "curated"), and
\* issues no provider query once limit records are collected.
C11_StrategyReturnsAtMostLimit ==
    /\ []((pc = "done" /\ op = "discover_by_strategy") => ~ OverLimit)
    /\ [][~ QueryPastLimit]_vars

\* the company of the table a curated record was built from
TableIndex(name) == CHOOSE i \in DOMAIN curated_companies : curated_companies[i].name = name

\* the company's city equals the filter case-insensitively, or no filter is given
CityMatches(i, city) ==
    city = "" \/ CityLower[curated_companies[i].city] = CityLower[city]

\* records with an email first, then records with a phone, ties in table order
InContactOrder(records) ==
    \A i, j \in 1..Len(records) :
        i < j =>
            LET a == records[i]
                b == records[j]
            IN  /\ b.email # Null => a.email # Null
                /\ ((a.email # Null) = (b.email # Null) /\ b.phone # Null)
                      => a.phone # Null
                /\ ((a.email # Null) = (b.email # Null)
                      /\ (a.phone # Null) = (b.phone # Null))
                      => TableIndex(a.name) < TableIndex(b.name)

\* C19: discover_from_curated_list returns exactly one record for each
\* curated company whose city equals the filter case-insensitively (for every
\* company when no filter is given), whatever the fetches do, with records
\* that have an email first, among those records with a phone first, and
\* records equal on both in the order of the curated table.
C19_CuratedOnePerCompanyInContactOrder ==
    (pc = "done" /\ op = "discover_from_curated_list") =>
        /\ Len(returned) =
              Cardinality({i \in DOMAIN curated_companies : CityMatches(i, curated.city)})
        /\ \A i \in DOMAIN curated_companies :
              CityMatches(i, curated.city) =>
                  Cardinality({k \in 1..Len(returned) :
                                  returned[k].name = curated_companies[i].name}) = 1
        /\ InContactOrder(returned)

\* the filter "meerut" kept the four companies of "Meerut"; the crawl found
\* an email for one that is not the first of them in the table and only a
\* phone for another, and these two lead the list
C19_Witness ==
    /\ pc = "done"
    /\ op = "discover_from_curated_list"
    /\ curated.city = "meerut"
    /\ Len(returned) = 4
    /\ returned[1].email # Null
    /\ returned[2].email = Null
    /\ returned[2].phone # Null
    /\ TableIndex(returned[1].name) > TableIndex(returned[2].name)
    /\ returned[3].email = Null
    /\ returned[3].phone = Null
    /\ returned[4].phone = Null

(***************************************************************************)
(* Properties of the ranking of discover_businesses and deep_search       *)
(***************************************************************************)
\* where the orchestrator first appended a record of that name to all_results
FirstAt(name) ==
    Min({k \in 1..Len(all_results) : NameLower(all_results[k].name) = NameLower(name)})

\* C12: discover_businesses and deep_search return at most limit records, in
\* non-increasing order of priority_score, records of equal priority_score
\* in the order in which the orchestrator appended them to all_results.
C12_RankedAndCapped ==
    (pc = "done" /\ op \in {"discover_businesses", "deep_search"}) =>
        /\ Len(returned) <= limit
        /\ \A i, j \in 1..Len(returned) :
              i < j =>
                  /\ returned[i].priority_score >= returned[j].priority_score
                  /\ returned[i].priority_score = returned[j].priority_score
                        => FirstAt(returned[i].name) < FirstAt(returned[j].name)

\* two records of equal score were returned in the order they were appended;
\* a record of a lower score had been appended as well
C12_Witness ==
    /\ pc = "done"
    /\ op \in {"discover_businesses", "deep_search"}
    /\ Len(returned) = 2
    /\ limit = 2
    /\ returned[1].priority_score = returned[2].priority_score
    /\ returned[1].name # returned[2].name
    /\ \E k \in 1..Len(all_results) :
          all_results[k].priority_score < returned[2].priority_score

\* how many enrichment page fetches the call has issued
EnrichFetches == idx - 1

\* C20: deep_search truncates the sorted merged list to limit before it
\* enriches: it fetches pages only for records of the list it returns, and
\* for the first 10 of them at most.
C20_DeepEnrichesOnlyReturned ==
    (pc = "done" /\ op = "deep_search") =>
        /\ EnrichFetches <= Len(returned)
        /\ EnrichFetches <= 10

(***************************************************************************)
(* Properties of the scheduling of enrich_leads_batch                      *)
(***************************************************************************)
\* the enrich_lead coroutines that have started and not ended
InFlight == {t \in DOMAIN tasks : tasks[t].pc \in {"get_seed", "get_page"}}

\* C13: while enrich_leads_batch runs, at most max_concurrent enrich_lead
\* crawls are in flight, and a member of a batch starts only after every
\* member of the batches before it has ended and the two-second pause that
\* follows a batch has gone by.
C13_BoundedFanOut ==
    op = "enrich_leads_batch" =>
        /\ Cardinality(InFlight) <= max_concurrent
        /\ \A t \in DOMAIN tasks :
              tasks[t].pc # "pending" =>
                  \A i \in 1..batch_at :
                      /\ i \in DOMAIN finished
                      /\ finished[i].ended + 2 <= tasks[t].started

\* two crawls of the first batch ran to their end, and the third lead's
\* crawl, alone in the second batch, is in flight after the pause
C13_Witness ==
    /\ op = "enrich_leads_batch"
    /\ Len(leads) = 3
    /\ max_concurrent = 2
    /\ batch_at = 2
    /\ InFlight = {1}
    /\ finished[1].out.enriched
    /\ finished[2].out.enriched
    /\ tasks[1].started >= 2

(***************************************************************************)
(* Properties of the crawl of scrape_website_contacts                      *)
(***************************************************************************)
NoDuplicates(seq) == \A i, j \in 1..Len(seq) : i < j => seq[i] # seq[j]

\* C15: a crawl attempts at most 3 secondary page fetches; when the seed
\* answered 200, pages_scraped starts with the seed URL, holds no URL twice
\* and has at most 4 entries; without follow_contact_pages it is exactly
\* the seed URL.
C15_CrawlVisitsAtMostThreePages ==
    \A t \in DOMAIN tasks :
        LET task == tasks[t]
            pages == task.result.pages_scraped
        IN  /\ task.fetches <= 1 + 3
            /\ task.seed_ok =>
                  /\ Len(pages) >= 1
                  /\ pages[1] = task.url
                  /\ NoDuplicates(pages)
                  /\ Len(pages) <= 4
            /\ (task.seed_ok /\ ~ task.follow /\ task.pc = "done") =>
                  pages = << task.url >>

\* the seed page linked to five contact pages; three were fetched and all
\* four pages are in pages_scraped
C15_Witness ==
    /\ op = "scrape_website_contacts"
    /\ tasks[1].pc = "done"
    /\ tasks[1].follow
    /\ web[tasks[1].url].page = "links"
    /\ tasks[1].fetches = 4
    /\ Len(tasks[1].result.pages_scraped) = 4

\* the step in which coroutine t gets the response to a secondary page fetch
PageStep(t) ==
    /\ t \in DOMAIN tasks
    /\ t \in DOMAIN tasks'
    /\ tasks[t].pc = "get_page"
    /\ tasks'[t] # tasks[t]

\* what such a step may do to the coroutine
PageStepAllowed(t) ==
    LET old == tasks[t].result
        new == tasks'[t].result
        page_failed == Len(new.pages_scraped) = Len(old.pages_scraped)
        Unscraped(u) == \A k \in 1..Len(old.pages_scraped) : old.pages_scraped[k] # u
        rest == SelectSeq(Tail(tasks[t].todo), Unscraped)
    IN  /\ \A f \in ContactFields : old[f] # Null => new[f] = old[f]
        /\ new.error = Null
        /\ page_failed =>
              /\ \A f \in ContactFields : new[f] = old[f]
              /\ IF rest = << >> THEN tasks'[t].pc = "done"
                 ELSE /\ tasks'[t].pc = "get_page"
                      /\ tasks'[t].todo[1] = rest[1]

\* C16: a secondary page only fills fields that are still empty on the
\* result; a secondary page that fails (an exception or a status other than
\* 200) changes no field, sets no error, and the remaining secondary pages
\* are still visited.
C16_SecondaryPageOnlyFills ==
    [][\A t \in 1..MaxConcurrent : PageStep(t) => PageStepAllowed(t)]_vars

\* the first contact page failed, the second was fetched all the same and
\* gave the result its email; no error is set
C16_Witness ==
    /\ op = "scrape_website_contacts"
    /\ hash_seed = 0
    /\ tasks[1].pc = "done"
    /\ tasks[1].fetches = 3
    /\ tasks[1].result.pages_scraped = << tasks[1].url, "https://acmesports.in/contact" >>
    /\ web[tasks[1].url].page = "home"
    /\ tasks[1].result.email # Null
    /\ tasks[1].result.error = Null
    /\ tasks[1].result.success

\* the lead has no website: the key is missing or its value is empty
NoWebsite(lead) == WebsiteInfo[lead.website].empty

\* C17: enrich_lead on a lead whose website is empty or missing returns the
\* lead as it was (no field changed, no enriched flag, no pages_scraped) and
\* fetches no page and calls the rate limiter not once.
C17_NoWebsiteNoCrawl ==
    \A t \in DOMAIN tasks :
        (tasks[t].kind = "enrich" /\ NoWebsite(tasks[t].lead_in)
            /\ tasks[t].pc # "pending") =>
            /\ tasks[t].pc = "done"
            /\ tasks[t].out = tasks[t].lead_in
            /\ tasks[t].fetches = 0
            /\ op = "enrich_lead" =>
                  /\ request_count = 0
                  /\ http_client = 0

\* enrich_lead returned a lead that has no "website" key
C17_Witness ==
    /\ pc = "done"
    /\ op = "enrich_lead"
    /\ tasks[1].pc = "done"
    /\ tasks[1].lead_in.website = "<no key>"
    /\ tasks[1].out.phone # Null
    /\ ~ tasks[1].out.enriched
    /\ tasks[1].out.keys = {}

\* C18: a discover_by_strategy call whose strategy is neither a key of
\* templates_map nor "curated" sends the queries and returns the records
\* that discover_by_strategy(city, "directories", limit) sends and returns
\* when the provider answers it the same way.
C18_UnknownStrategyIsDirectories ==
    (pc = "done" /\ op = "discover_by_strategy"
        /\ strategy \notin NamedStrategies \cup {"curated"}) =>
        /\ TwinDone(twin, limit)
        /\ Queries(TemplateList(strategy), queried)
             = Queries(TemplateList("directories"), twin.tmpl - 1)
        /\ returned = twin.search.results

\* a call with an unknown id went past the length of every other list and
\* returned a record
C18_Witness ==
    /\ pc = "done"
    /\ op = "discover_by_strategy"
    /\ strategy = "other"
    /\ queried > TemplateCount.manufacturer
    /\ Len(returned) >= 1
    /\ failed = 1

\* the step is a turn of the enrichment loop of discover_businesses or
\* deep_search
EnrichTurn == pc = "enrich" /\ idx' = idx + 1

\* the fields the record under enrichment had from its search snippet are
\* what they were
SnippetContactsKept ==
    /\ ranked[idx].email # Null => ranked'[idx].email = ranked[idx].email
    /\ ranked[idx].phone # Null => ranked'[idx].phone = ranked[idx].phone
    /\ ranked[idx].whatsapp # Null => ranked'[idx].whatsapp = ranked[idx].whatsapp

\* C21: the single-page enrichment of discover_businesses and of deep_search
\* never replaces an email, phone or whatsapp value a record already has
\* from its search snippet.
C21_EnrichmentKeepsSnippetContacts ==
    [][EnrichTurn => SnippetContactsKept]_vars

\* the share of limit the spec grants the sub-strategy that is running:
\* a third to the first two, a sixth to the other two
GrantedShare == IF strat \in {1, 2} THEN limit \div 3 ELSE limit \div 6

\* C22: in discover_businesses(city, limit) the directories and the
\* advanced-search sub-strategies each collect at most limit/3 records and
\* the manufacturer and the sports-shop sub-strategies at most limit/6.
C22_SubStrategyWithinShare ==
    (pc = "search" /\ op = "discover_businesses") =>
        Len(search.results) <= GrantedShare

(***************************************************************************)
(* Specification SpecExtract: one _extract_contact_info(text, html_soup)   *)
(* call, stage by stage.                                                   *)
(***************************************************************************)
\* the call's arguments: a text, and no soup or a soup with its links
InitExtract ==
    /\ pc = "extract"
    /\ \E text \in ExtractTexts, soup \in BOOLEAN, m \in MailtoLinks, t \in TelLinks :
          /\ soup \/ (m = << >> /\ t = << >>)
          /\ extract = [stage |-> "emails", text |-> text, has_soup |-> soup,
                        mailto |-> m, tel |-> t, contact |-> NoContact]
    /\ IdleEngine
    /\ IdlePriority
    /\ IdleDiscover
    /\ IdleScrape
    /\ IdleBatch
    /\ IdleRate
    /\ IdleCurated
    /\ IdleHit

others_vars ==
    <<pc, engine_vars, priority_vars, discover_vars, scrape_vars, batch_vars,
      rate_vars, curated_vars, hit_vars>>

\* for pattern in email_patterns: ...
ScanEmails ==
    /\ pc = "extract"
    /\ extract.stage = "emails"
    /\ extract' = [extract EXCEPT !.stage = "mailto",
                                  !.contact.email = EmailFromText(extract.text)]
    /\ UNCHANGED others_vars

\* if html_soup and not contact.get("email"): the mailto: links
ScanMailto ==
    /\ pc = "extract"
    /\ extract.stage = "mailto"
    /\ extract' = [extract EXCEPT
                      !.stage = "phones",
                      !.contact.email =
                          IF extract.has_soup /\ @ = Null
                          THEN EmailFromMailto(extract.mailto) ELSE @]
    /\ UNCHANGED others_vars

\* for pattern in phone_patterns: ...
ScanPhones ==
    /\ pc = "extract"
    /\ extract.stage = "phones"
    /\ extract' = [extract EXCEPT !.stage = "tel",
                                  !.contact.phone = PhoneFromText(extract.text)]
    /\ UNCHANGED others_vars

\* if html_soup and not contact.get("phone"): the tel: links
ScanTel ==
    /\ pc = "extract"
    /\ extract.stage = "tel"
    /\ extract' = [extract EXCEPT
                      !.stage = "whatsapp",
                      !.contact.phone =
                          IF extract.has_soup /\ @ = Null
                          THEN PhoneFromTel(extract.tel) ELSE @]
    /\ UNCHANGED others_vars

\* for pattern in whatsapp_patterns: ...; return contact
ScanWhatsapp ==
    /\ pc = "extract"
    /\ extract.stage = "whatsapp"
    /\ extract' = [extract EXCEPT
                      !.stage = "returned",
                      !.contact = WithWhatsapp(@, WhatsappFromText(extract.text))]
    /\ UNCHANGED others_vars

NextExtract ==
    \/ ScanEmails
    \/ ScanMailto
    \/ ScanPhones
    \/ ScanTel
    \/ ScanWhatsapp

SpecExtract == InitExtract /\ [][NextExtract]_vars

\* C23: the email _extract_contact_info returns never contains a term of
\* the deny-list, whether it was found as a plain address, in the spaced-@
\* or the [at] notation, or in a mailto: link.
C23_ReturnedEmailHasNoDenyTerm ==
    (extract.stage = "returned" /\ extract.contact.email # Null) =>
        ~ HasDenyTerm[extract.contact.email]

\* C24: a contact returned with a whatsapp number has a phone; the step
\* that records the whatsapp number sets phone to it when the phone patterns
\* and the tel: links gave none, and leaves a phone they gave as it is.
C24_WhatsappFillsMissingPhone ==
    /\ []((extract.stage = "returned" /\ extract.contact.whatsapp # Null) =>
            extract.contact.phone # Null)
    /\ [][(extract.stage = "whatsapp" /\ extract'.contact.whatsapp # Null) =>
            extract'.contact.phone =
                IF extract.contact.phone = Null
                THEN extract'.contact.whatsapp ELSE extract.contact.phone]_vars

\* neither a phone pattern nor the page's tel: link gave a phone, and the
\* whatsapp number was returned as the phone too
C24_Witness ==
    /\ extract.stage = "returned"
    /\ extract.has_soup
    /\ extract.tel # << >>
    /\ PhoneFromText(extract.text) = Null
    /\ PhoneFromTel(extract.tel) = Null
    /\ extract.contact.whatsapp # Null
    /\ extract.contact.phone = extract.contact.whatsapp

\* every record of the list has a name of 3 to 100 characters
NamesWithinLength(list) ==
    \A i \in 1..Len(list) : NameLen(list[i].name) >= 3 /\ NameLen(list[i].name) <= 100

\* C25: the records _search_with_templates collects and the records
\* discover_businesses and deep_search return have names of 3 to 100
\* characters; a hit whose cleaned title is empty or shorter than 3
\* characters yields no record.
C25_NamesHaveThreeToHundredChars ==
    /\ pc = "search" => NamesWithinLength(search.results)
    /\ pc \in {"search", "enrich", "done"} => NamesWithinLength(all_results)
    /\ pc = "done" => NamesWithinLength(returned)

\* discover_businesses returned a record whose title was cut to 100
\* characters
C25_Witness ==
    /\ pc = "done"
    /\ op = "discover_businesses"
    /\ \E i \in 1..Len(returned) : NameLen(returned[i].name) = 100

(***************************************************************************)
(* Specification SpecHit: _search_with_templates looks at the first hit of *)
(* its first query.                                                        *)
(***************************************************************************)
\* a hit with any URL, title and snippet of the model; nothing collected yet
InitHit ==
    /\ pc = "hit"
    /\ \E u \in URLS, t \in {r.title : r \in TitleTable}, b \in {r.text : r \in SnippetTable} :
          hit = [href |-> u, title |-> t, body |-> b]
    /\ op = Null
    /\ strategy = Null
    /\ limit \in 1..MaxLimit
    /\ strat = 0
    /\ tmpl = 0
    /\ search = NewSearch
    /\ queried = 0
    /\ failed = 0
    /\ no_error_run = Null
    /\ twin = Null
    /\ all_results = << >>
    /\ seen_names = {}
    /\ ranked = << >>
    /\ idx = 0
    /\ returned = Null
    /\ IdleEngine
    /\ IdlePriority
    /\ IdleScrape
    /\ IdleBatch
    /\ IdleRate
    /\ IdleCurated
    /\ IdleExtract

\* the body of the loop over search_results for that hit
LookAtHit ==
    /\ pc = "hit"
    /\ search' = ProcessItem(search, hit, limit)
    /\ pc' = "hit_done"
    /\ UNCHANGED <<op, strategy, limit, strat, tmpl, queried, failed, no_error_run, twin,
                   all_results, seen_names, ranked, idx, returned, hit,
                   engine_vars, priority_vars, scrape_vars, batch_vars, rate_vars,
                   curated_vars, extract_vars>>

NextHit == LookAtHit

SpecHit == InitHit /\ [][NextHit]_vars

\* the title of the hit makes a name the loop accepts
NameAccepted == NameLen(CleanBusinessName(hit.title)) >= 3

\* C26: _is_business_url rejects a URL exactly when its host is a
\* skip-listed domain; a skip-list term in the path does not matter, and a
\* URL on a domain of the priority table is accepted, so that a hit on
\* tradeindia.com yields a record with source "TradeIndia".
C26_RejectedIffHostSkipListed ==
    (pc = "hit_done" /\ NameAccepted) =>
        /\ search.results = << >> <=> HostInfo[Info(hit.href).netloc].skip_listed
        /\ HostInfo[Info(hit.href).netloc].directory => search.results # << >>
        /\ "tradeindia" \in Info(hit.href).hostwords =>
              /\ search.results # << >>
              /\ search.results[1].source = "TradeIndia"

\* urlparse(url).netloc of the URLs the fetcher is asked for
WebHostTable ==
    {[url |-> "https://acmesports.in/", netloc |-> "acmesports.in"],
     [url |-> "https://acmesports.in/about-us", netloc |-> "acmesports.in"],
     [url |-> "https://acmesports.in/contact", netloc |-> "acmesports.in"],
     [url |-> "https://acmesports.in/dealer/mumbai", netloc |-> "acmesports.in"],
     [url |-> "https://acmesports.in/enquiry", netloc |-> "acmesports.in"],
     [url |-> "https://evil.example/contact?ref=acmesports.in", netloc |-> "evil.example"],
     [url |-> "https://acmesports.in", netloc |-> "acmesports.in"]}

WebHost(url) == (CHOOSE r \in WebHostTable : r.url = url).netloc

\* C27: every secondary page scrape_website_contacts fetches, and so every
\* URL in pages_scraped, is on the host of the seed URL, also when a link to
\* another host holds the seed's host name somewhere in its URL.
C27_CrawlStaysOnSeedHost ==
    \A t \in DOMAIN tasks :
        LET task == tasks[t]
            pages == task.result.pages_scraped
        IN  /\ \A k \in 1..Len(pages) : WebHost(pages[k]) = WebHost(task.url)
            /\ task.pc = "get_page" => WebHost(task.todo[1]) = WebHost(task.url)

(***************************************************************************)
(* Specification SpecEngine: one call of any public operation on a fresh   *)
(* SearchEngine.                                                           *)
(***************************************************************************)
InitEngine == InitBatch

\* the steps of scrape_website_contacts and enrich_lead called directly
CrawlSteps ==
    /\ op \in {"scrape_website_contacts", "enrich_lead"}
    /\ \/ TaskBegin(1)
       \/ SeedResponse(1, ScrapeResponses)
       \/ PageResponse(1, ScrapeResponses)
       \/ SecondCall
       \/ CallOver

\* the steps of enrich_leads_batch
BatchSteps ==
    /\ op = "enrich_leads_batch"
    /\ \/ GatherBatch
       \/ \E t \in 1..MaxConcurrent : TaskBegin(t)
       \/ \E t \in 1..MaxConcurrent : SeedResponse(t, BatchResponses)
       \/ \E t \in 1..MaxConcurrent : PageResponse(t, BatchResponses)
       \/ CollectBatch
       \/ BatchSleep
       \/ ReturnBatch

NextEngine ==
    \/ StartDiscovery
    \/ StartStrategy
    \/ StartCurated
    \/ StartCuratedStrategy
    \/ StartScrape
    \/ StartEnrichLead
    \/ StartBatchCall
    \/ QueryTemplate
    \/ NextStrategy
    \/ RankResults
    \/ EnrichRecord
    \/ ReturnResults
    \/ ReturnStrategy
    \/ (curated.stage # "idle" /\ CuratedSteps)
    \/ CrawlSteps
    \/ BatchSteps

SpecEngine == InitEngine /\ [][NextEngine]_vars

\* C28: at every point of every run the engine has called _rate_limit at
\* least as often as it has issued a provider query or a page fetch (seed
\* page, secondary contact page, curated secondary URL, single-page
\* enrichment fetch).
C28_EveryRequestRateLimited == limiter_calls >= requests

\* a curated secondary URL has been fetched: the limiter was called once in
\* discover_from_curated_list and once more inside the crawl
C28_Witness == requests >= 2 /\ limiter_calls > requests

\* C29: on one engine at most one page-fetcher HTTP client is ever created,
\* whatever the operation called and however the concurrent enrich_lead
\* tasks of a batch interleave, and every fetch is made with that client.
C29_OneHttpClient ==
    /\ clients_created <= 1
    /\ http_client = clients_created
    /\ \A t \in DOMAIN tasks : tasks[t].client \in {0, http_client}

\* two enrich_lead tasks of one batch have both fetched, with the one client
C29_Witness ==
    /\ op = "enrich_leads_batch"
    /\ Len(tasks) >= 2
    /\ tasks[1].client = 1
    /\ tasks[2].client = 1
    /\ tasks[1].fetches >= 1
    /\ tasks[2].fetches >= 1
    /\ clients_created = 1

\* C30: after every _rate_limit call the shared request counter is between
\* 0 and 10: a call counts one request more, and the call that would raise
\* the counter above 10 resets it to 0, whether or not it had to sleep.
C30_RequestCountWithinTen ==
    /\ [](request_count \in 0..10)
    /\ [][calls' = calls + 1 =>
            request_count' = IF request_count = 10 THEN 0 ELSE request_count + 1]_vars

\* the eleventh call found two seconds already gone by, did not sleep, and
\* reset the counter
C30_Witness ==
    /\ calls = 11
    /\ request_count = 0
    /\ proceeded = made
    /\ made >= prev_made + 2

====
